---------------------------- MODULE Spec2Model ----------------------------
(***************************************************************************)
(* Nexus voice assistant: the conversation-turn orchestrator               *)
(* (core/orchestrator.py), the safety gate (core/safety.py), the plan      *)
(* normalisation of the planner (core/planner.py) and the helpers          *)
(* (core/helpers.py), as a state machine.                                  *)
(*                                                                         *)
(* Python strings are TLA+ strings (Len, \o and SubSeq work on them);      *)
(* Python's None is the value None below; a dict is a function from keys   *)
(* to values, read with Get as dict.get reads it.                          *)
(***************************************************************************)
EXTENDS Integers, Sequences, FiniteSets, TLC

(***************************************************************************)
(* Bounds of the model.                                                    *)
(***************************************************************************)
MaxPlanLen == 2
MaxTurns == 1
MaxListLen == 3

(***************************************************************************)
(* Python values and string primitives.                                    *)
(***************************************************************************)
None == "<None>"

Falsy(x) == x = None \/ x = ""

\* x or d
Or(x, d) == IF Falsy(x) THEN d ELSE x

\* str(x or "")
StrOrEmpty(x) == IF Falsy(x) THEN "" ELSE x

EmptyArgs == [k \in {} |-> ""]

\* dict.get(k, d)
Get(args, k, d) == IF k \in DOMAIN args THEN args[k] ELSE d

CharAt(s, i) == SubSeq(s, i, i)

Uppers == "ABCDEFGHIJKLMNOPQRSTUVWXYZ"
Lowers == "abcdefghijklmnopqrstuvwxyz"

LowerMap ==
    [c \in {CharAt(Uppers, i) : i \in 1..Len(Uppers)} |->
        CharAt(Lowers, CHOOSE i \in 1..Len(Uppers) : CharAt(Uppers, i) = c)]

LowerChar(c) == IF c \in DOMAIN LowerMap THEN LowerMap[c] ELSE c

RECURSIVE Lower(_)
Lower(s) == IF s = "" THEN "" ELSE LowerChar(CharAt(s, 1)) \o Lower(SubSeq(s, 2, Len(s)))

IsSpace(c) == c \in {" ", "\t", "\n"}

RECURSIVE LStrip(_)
LStrip(s) == IF s # "" /\ IsSpace(CharAt(s, 1)) THEN LStrip(SubSeq(s, 2, Len(s))) ELSE s

RECURSIVE RStrip(_)
RStrip(s) ==
    IF s # "" /\ IsSpace(CharAt(s, Len(s))) THEN RStrip(SubSeq(s, 1, Len(s) - 1)) ELSE s

Strip(s) == RStrip(LStrip(s))

StartsWith(s, p) == Len(p) <= Len(s) /\ SubSeq(s, 1, Len(p)) = p

\* the text of s from position i on starts with p
StartsAt(s, i, p) == i + Len(p) - 1 <= Len(s) /\ SubSeq(s, i, i + Len(p) - 1) = p

\* p in s
Contains(s, p) == \E i \in 1..(Len(s) - Len(p) + 1) : StartsAt(s, i, p)

\* s.find(p), 1-based; 0 when absent
Find(s, p) ==
    IF Contains(s, p)
    THEN CHOOSE i \in 1..(Len(s) - Len(p) + 1) :
            /\ StartsAt(s, i, p)
            /\ \A j \in 1..(i - 1) : ~StartsAt(s, j, p)
    ELSE 0

(***************************************************************************)
(* core/intent.py, core/models.py                                          *)
(***************************************************************************)
Intent ==
    {"UNKNOWN", "OPEN_APP", "CLOSE_APP", "CLOSE_ALL_APPS", "SEARCH_WEB", "CREATE_NOTE",
     "OPEN_URL", "CONTACTS", "MAIL", "REMINDERS", "CALENDAR", "MAPS", "SEND_MESSAGE",
     "TYPE_TEXT", "READ_MESSAGES", "READ_SCREEN", "REMEMBER_THIS", "RECALL_MEMORY",
     "UPDATE_MEMORY", "FORGET_THIS", "LIST_MEMORIES", "EXIT", "STOP_NEXUS",
     "RESTART_NEXUS"}

ActionStep(intent, args) == [intent |-> intent, args |-> args]

\* core/planner.py TurnPlan, with the response text that the orchestrator reads
TurnPlan(mr, mw, steps, text) ==
    [memory_read |-> mr, memory_write |-> mw, actions |-> steps, response_text |-> text]

(***************************************************************************)
(* core/safety.py                                                          *)
(***************************************************************************)
PROTECTED_APPS ==
    {"System", "System Settings", "SystemUIServer", "WindowServer", "ControlCenter",
     "NotificationCenter", "Finder", "Dock", "loginwindow", "Terminal", "iTerm2", "Nexus"}

SafetyDecision(allowed, reason, requires_confirmation, prompt) ==
    [allowed |-> allowed, reason |-> reason,
     requires_confirmation |-> requires_confirmation, prompt |-> prompt]


\* the fallback of check_step for an intent that no rule names
NoPolicyDecision(intent) ==
    SafetyDecision(FALSE, "no policy", FALSE,
                   "I don't have a safety policy for " \o intent \o ". Blocked for safety.")

CheckOpenApp(args) ==
    LET app == Get(args, "app_name", "") IN
    IF Falsy(app) \/ Strip(app) = ""
    THEN SafetyDecision(FALSE, "missing app_name", FALSE, "Which app should I open?")
    ELSE IF Strip(app) = "System"
    THEN SafetyDecision(FALSE, "protected", FALSE, "I can't open that system process.")
    ELSE SafetyDecision(TRUE, "ok", FALSE, None)

CheckCloseApp_no_protected_set(args) ==
    LET app == Get(args, "app_name", "") IN
    IF Falsy(app) \/ Strip(app) = ""
    THEN SafetyDecision(FALSE, "missing app_name", FALSE, "Which app should I close?")
    ELSE SafetyDecision(TRUE, "ok", TRUE, "I'll close " \o app \o ". Confirm?")

CheckCloseApp(args) ==
    LET app == Get(args, "app_name", "") IN
    IF Falsy(app) \/ Strip(app) = ""
    THEN SafetyDecision(FALSE, "missing app_name", FALSE, "Which app should I close?")
    ELSE IF Strip(app) \in PROTECTED_APPS
    THEN SafetyDecision(FALSE, "protected", FALSE,
                        "I can't close " \o app \o " - it's a protected system app.")
    ELSE SafetyDecision(TRUE, "ok", TRUE, "I'll close " \o app \o ". Confirm?")

CheckCalendar(args) ==
    LET op == Lower(StrOrEmpty(Get(args, "operation", "")))
        title == Strip(StrOrEmpty(Get(args, "title", "")))
        date == Strip(StrOrEmpty(Or(Get(args, "date", ""), Get(args, "startDate", ""))))
        time == Strip(StrOrEmpty(Or(Get(args, "time", ""), Get(args, "startTime", ""))))
        p1 == IF title # "" THEN <<"\"" \o title \o "\"">> ELSE <<>>
        p2 == IF date # "" THEN <<"on " \o date>> ELSE <<>>
        p3 == IF time # "" THEN <<"at " \o time>> ELSE <<>>
        desc_parts == p1 \o p2 \o p3
        Join[i \in 0..Len(desc_parts)] ==
            IF i = 0 THEN ""
            ELSE IF i = 1 THEN desc_parts[1]
            ELSE Join[i - 1] \o " " \o desc_parts[i]
        desc == IF desc_parts # <<>> THEN Join[Len(desc_parts)] ELSE "a new event"
    IN  IF op = "create"
        THEN SafetyDecision(TRUE, "ok", TRUE, "I'll create " \o desc \o ". Confirm?")
        ELSE SafetyDecision(TRUE, "ok", FALSE, None)

CheckReminders(args) ==
    LET op == Lower(StrOrEmpty(Get(args, "operation", "")))
        name == Or(Strip(StrOrEmpty(Get(args, "name", ""))), "a reminder")
    IN  IF op = "create"
        THEN SafetyDecision(TRUE, "ok", TRUE, "I'll create a reminder (" \o name \o "). Confirm?")
        ELSE SafetyDecision(TRUE, "ok", FALSE, None)

CheckMail(args) ==
    LET op == Lower(StrOrEmpty(Get(args, "operation", "")))
        to == Strip(StrOrEmpty(Get(args, "to", "")))
        subject == Strip(StrOrEmpty(Get(args, "subject", "")))
    IN  IF op = "send"
        THEN SafetyDecision(TRUE, "ok", TRUE,
                            "I'll send an email to " \o to \o " (" \o subject \o "). Confirm?")
        ELSE SafetyDecision(TRUE, "ok", FALSE, None)

CheckSendMessage(args) ==
    LET recipient == Get(args, "recipient", "")
        message == Get(args, "message", "")
    IN  IF Falsy(recipient)
        THEN SafetyDecision(FALSE, "missing recipient", FALSE, "Who should I send the message to?")
        ELSE IF Falsy(message)
        THEN SafetyDecision(FALSE, "missing message", FALSE, "What message should I send?")
        ELSE SafetyDecision(TRUE, "ok", TRUE,
                            "I'll send '" \o message \o "' to " \o recipient \o ". Confirm?")

CheckTypeText(args) ==
    LET person == Get(args, "person", "")
        message == Get(args, "message", "")
        target == IF ~Falsy(person) THEN person ELSE "the active window"
        preview == IF Len(message) > 40 THEN SubSeq(message, 1, 40) \o "..." ELSE message
    IN  IF Falsy(message)
        THEN SafetyDecision(FALSE, "missing message", FALSE, "What should I type?")
        ELSE SafetyDecision(TRUE, "ok", TRUE,
                            "I'll type '" \o preview \o "' in " \o target \o ". Confirm?")

CheckReadMessages(args) ==
    LET contact == Or(Or(Get(args, "contact", None), Get(args, "recipient", None)), "") IN
    IF Strip(contact) = ""
    THEN SafetyDecision(FALSE, "missing contact", FALSE,
                        "Which contact should I read messages for?")
    ELSE SafetyDecision(TRUE, "ok", FALSE, None)

CheckPayload_no_question(args, key, reason, question) ==
    IF Falsy(Get(args, key, ""))
    THEN SafetyDecision(FALSE, reason, FALSE, None)
    ELSE SafetyDecision(TRUE, "ok", FALSE, None)

\* a rule that blocks when the payload field is missing and never asks
CheckPayload(args, key, reason, question) ==
    IF Falsy(Get(args, key, ""))
    THEN SafetyDecision(FALSE, reason, FALSE, question)
    ELSE SafetyDecision(TRUE, "ok", FALSE, None)

CheckUnknown_allowed == SafetyDecision(TRUE, "ok", FALSE, None)

CheckUnknown ==
    SafetyDecision(FALSE, "unknown intent", FALSE, "I don't understand that command.")

check_step(step) ==
    LET intent == step.intent
        args == step.args
    IN  CASE intent = "UNKNOWN" -> CheckUnknown
          [] intent = "OPEN_APP" -> CheckOpenApp(args)
          [] intent = "CLOSE_APP" -> CheckCloseApp(args)
          [] intent = "CLOSE_ALL_APPS" ->
               SafetyDecision(TRUE, "ok", TRUE,
                              "I'm about to close ALL running applications. Are you sure?")
          [] intent = "SEARCH_WEB" ->
               CheckPayload(args, "query", "missing query", "What should I search for?")
          [] intent = "OPEN_URL" ->
               CheckPayload(args, "url", "missing url", "Which URL should I open?")
          [] intent = "CREATE_NOTE" ->
               CheckPayload(args, "content", "missing content", "What should the note say?")
          [] intent = "CONTACTS" -> SafetyDecision(TRUE, "ok", FALSE, None)
          [] intent = "CALENDAR" -> CheckCalendar(args)
          [] intent = "REMINDERS" -> CheckReminders(args)
          [] intent = "MAPS" -> SafetyDecision(TRUE, "ok", FALSE, None)
          [] intent = "MAIL" -> CheckMail(args)
          [] intent = "SEND_MESSAGE" -> CheckSendMessage(args)
          [] intent = "TYPE_TEXT" -> CheckTypeText(args)
          [] intent = "READ_MESSAGES" -> CheckReadMessages(args)
          [] intent \in {"READ_SCREEN", "REMEMBER_THIS", "RECALL_MEMORY", "UPDATE_MEMORY",
                         "FORGET_THIS", "LIST_MEMORIES", "EXIT"} ->
               SafetyDecision(TRUE, "ok", FALSE, None)
          [] intent = "STOP_NEXUS" ->
               SafetyDecision(TRUE, "ok", TRUE, "I'm about to shut down completely. Are you sure?")
          [] intent = "RESTART_NEXUS" ->
               SafetyDecision(TRUE, "ok", TRUE, "I'm about to restart myself. Confirm?")
          [] OTHER -> NoPolicyDecision(intent)

\* ", ".join(xs)
RECURSIVE JoinComma(_)
JoinComma(xs) ==
    IF xs = <<>> THEN ""
    ELSE IF Len(xs) = 1 THEN xs[1]
    ELSE xs[1] \o ", " \o JoinComma(Tail(xs))

\* " ".join(xs)
RECURSIVE JoinSpace(_)
JoinSpace(xs) ==
    IF xs = <<>> THEN ""
    ELSE IF Len(xs) = 1 THEN xs[1]
    ELSE xs[1] \o " " \o JoinSpace(Tail(xs))

\* the combined prompt with a plain "and" before the last of three or more targets
BuildPrompt_no_comma(close_targets, other_confirmations) ==
    LET n == Len(close_targets)
        close_msg ==
            IF n = 1 THEN "I'll close " \o close_targets[1] \o ". Confirm?"
            ELSE "I'll close " \o JoinComma(SubSeq(close_targets, 1, n - 1)) \o " and "
                 \o close_targets[n] \o ". Confirm?"
    IN  IF close_targets # <<>>
        THEN IF other_confirmations # <<>>
             THEN close_msg \o " Also: " \o JoinSpace(other_confirmations)
             ELSE close_msg
        ELSE IF other_confirmations # <<>> THEN other_confirmations[1]
        ELSE None

\* the combined prompt built after the loop of check_command
BuildPrompt(close_targets, other_confirmations) ==
    LET n == Len(close_targets)
        close_msg ==
            IF n = 1 THEN "I'll close " \o close_targets[1] \o ". Confirm?"
            ELSE IF n = 2
            THEN "I'll close " \o close_targets[1] \o " and " \o close_targets[2] \o ". Confirm?"
            ELSE "I'll close " \o JoinComma(SubSeq(close_targets, 1, n - 1)) \o ", and "
                 \o close_targets[n] \o ". Confirm?"
    IN  IF close_targets # <<>>
        THEN IF other_confirmations # <<>>
             THEN close_msg \o " Also: " \o JoinSpace(other_confirmations)
             ELSE close_msg
        ELSE IF other_confirmations # <<>> THEN other_confirmations[1]
        ELSE None

\* the loop of check_command from step i on, with the values collected so far
RECURSIVE CheckCommandLoop_no_short_circuit(_, _, _, _, _)
CheckCommandLoop_no_short_circuit(steps, i, requires_confirmation, close_targets, other_confirmations) ==
    IF i > Len(steps)
    THEN SafetyDecision(TRUE, "ok", requires_confirmation,
                        BuildPrompt(close_targets, other_confirmations))
    ELSE LET step == steps[i]
             d == check_step(step)
             app == Get(step.args, "app_name", "")
         IN  IF ~d.allowed /\ i = 1
             THEN d
             ELSE IF ~d.requires_confirmation
             THEN CheckCommandLoop_no_short_circuit(steps, i + 1, requires_confirmation,
                                                    close_targets, other_confirmations)
             ELSE IF step.intent = "CLOSE_APP"
             THEN CheckCommandLoop_no_short_circuit(steps, i + 1, TRUE,
                      IF ~Falsy(app) THEN Append(close_targets, app) ELSE close_targets,
                      other_confirmations)
             ELSE CheckCommandLoop_no_short_circuit(steps, i + 1, TRUE, close_targets,
                      IF ~Falsy(d.prompt) THEN Append(other_confirmations, d.prompt)
                      ELSE other_confirmations)

RECURSIVE CheckCommandLoop(_, _, _, _, _)
CheckCommandLoop(steps, i, requires_confirmation, close_targets, other_confirmations) ==
    IF i > Len(steps)
    THEN SafetyDecision(TRUE, "ok", requires_confirmation,
                        BuildPrompt(close_targets, other_confirmations))
    ELSE LET step == steps[i]
             d == check_step(step)
             app == Get(step.args, "app_name", "")
         IN  IF ~d.allowed
             THEN d
             ELSE IF ~d.requires_confirmation
             THEN CheckCommandLoop(steps, i + 1, requires_confirmation, close_targets,
                                   other_confirmations)
             ELSE IF step.intent = "CLOSE_APP"
             THEN CheckCommandLoop(steps, i + 1, TRUE,
                      IF ~Falsy(app) THEN Append(close_targets, app) ELSE close_targets,
                      other_confirmations)
             ELSE CheckCommandLoop(steps, i + 1, TRUE, close_targets,
                      IF ~Falsy(d.prompt) THEN Append(other_confirmations, d.prompt)
                      ELSE other_confirmations)

\* the decision of the first step taken for the whole plan
check_command_first_step(steps) ==
    IF steps = <<>>
    THEN SafetyDecision(TRUE, "chat", FALSE, None)
    ELSE check_step(steps[1])

check_command(steps) ==
    IF steps = <<>>
    THEN SafetyDecision(TRUE, "chat", FALSE, None)
    ELSE CheckCommandLoop(steps, 1, FALSE, <<>>, <<>>)

(***************************************************************************)
(* core/helpers.py: confirmation detection                                 *)
(***************************************************************************)
POSITIVE_WORDS ==
    {"yes", "yeah", "yep", "yup", "sure", "ok", "okay", "alright",
     "do it", "confirm", "confirmed", "go ahead", "proceed", "affirmative",
     "absolutely", "definitely", "of course", "for sure", "go for it",
     "please", "please do", "yes please", "that's right", "correct",
     "right", "uh huh", "mm hmm", "yea", "ya", "yas", "yah",
     "confer", "conf", "confir", "confirme", "go for",
     "yep yep", "yes yes", "uh-huh", "mhm"}

NEGATIVE_WORDS ==
    {"no", "nah", "nope", "cancel", "stop", "don't", "abort",
     "never", "negative", "no way", "not now", "wait", "hold on",
     "actually no", "no thanks", "nope nope"}

POSITIVE_PREFIXES == {"ye", "su", "ok", "al", "go", "conf", "uh", "mm"}

\* the negative phrases looked for before the positive ones
is_confirmation_positive_negative_first(user_text) ==
    IF Falsy(user_text) THEN FALSE
    ELSE LET clean == Strip(Lower(user_text)) IN
         IF clean \in POSITIVE_WORDS THEN TRUE
         ELSE IF clean \in NEGATIVE_WORDS THEN FALSE
         ELSE IF \E phrase \in NEGATIVE_WORDS : Len(phrase) > 2 /\ Contains(clean, phrase)
         THEN FALSE
         ELSE IF \E phrase \in POSITIVE_WORDS : Len(phrase) > 2 /\ Contains(clean, phrase)
         THEN TRUE
         ELSE IF \E pre \in POSITIVE_PREFIXES : StartsWith(clean, pre) THEN TRUE
         ELSE FALSE

is_confirmation_positive(user_text) ==
    IF Falsy(user_text) THEN FALSE
    ELSE LET clean == Strip(Lower(user_text)) IN
         IF clean \in POSITIVE_WORDS THEN TRUE
         ELSE IF clean \in NEGATIVE_WORDS THEN FALSE
         ELSE IF \E phrase \in POSITIVE_WORDS : Len(phrase) > 2 /\ Contains(clean, phrase)
         THEN TRUE
         ELSE IF \E phrase \in NEGATIVE_WORDS : Len(phrase) > 2 /\ Contains(clean, phrase)
         THEN FALSE
         ELSE IF \E pre \in POSITIVE_PREFIXES : StartsWith(clean, pre) THEN TRUE
         ELSE FALSE

\* one "for phrase in ...: if len(phrase) > 2 and phrase in clean: return" loop
\* of is_confirmation_positive, with order the order in which the frozenset
\* hands out its phrases: TRUE when the loop returns, FALSE when it runs out
RECURSIVE PartialMatch_first_contained(_, _)
PartialMatch_first_contained(order, clean) ==
    IF order = <<>> THEN FALSE
    ELSE IF Contains(clean, Head(order)) THEN Len(Head(order)) > 2
    ELSE PartialMatch_first_contained(Tail(order), clean)

RECURSIVE PartialMatch(_, _)
PartialMatch(order, clean) ==
    IF order = <<>> THEN FALSE
    ELSE IF Len(Head(order)) > 2 /\ Contains(clean, Head(order)) THEN TRUE
    ELSE PartialMatch(Tail(order), clean)

\* is_confirmation_positive with its two loops run in the given orders
is_confirmation_positive_iterating(user_text, positive_order, negative_order) ==
    IF Falsy(user_text) THEN FALSE
    ELSE LET clean == Strip(Lower(user_text)) IN
         IF clean \in POSITIVE_WORDS THEN TRUE
         ELSE IF clean \in NEGATIVE_WORDS THEN FALSE
         ELSE IF PartialMatch(positive_order, clean) THEN TRUE
         ELSE IF PartialMatch(negative_order, clean) THEN FALSE
         ELSE IF \E pre \in POSITIVE_PREFIXES : StartsWith(clean, pre) THEN TRUE
         ELSE FALSE

(***************************************************************************)
(* core/helpers.py: action expansion                                       *)
(***************************************************************************)
\* expand_steps, with apps the answer of get_running_apps()
RECURSIVE expand_steps_drop_others(_, _)
expand_steps_drop_others(actions, apps) ==
    IF actions = <<>> THEN <<>>
    ELSE (IF Head(actions).intent = "CLOSE_ALL_APPS"
          THEN [j \in 1..Len(apps) |-> ActionStep("CLOSE_APP", [app_name |-> apps[j]])]
          ELSE IF \E i \in 1..Len(actions) : actions[i].intent = "CLOSE_ALL_APPS"
          THEN <<>>
          ELSE <<Head(actions)>>)
         \o expand_steps_drop_others(Tail(actions), apps)

RECURSIVE expand_steps(_, _)
expand_steps(actions, apps) ==
    IF actions = <<>> THEN <<>>
    ELSE (IF Head(actions).intent = "CLOSE_ALL_APPS"
          THEN [j \in 1..Len(apps) |-> ActionStep("CLOSE_APP", [app_name |-> apps[j]])]
          ELSE <<Head(actions)>>)
         \o expand_steps(Tail(actions), apps)

(***************************************************************************)
(* core/planner.py: plan normalisation                                     *)
(***************************************************************************)
\* a raw action of the planner's JSON: a dict with "intent" and maybe "args" (a dict;
\* a missing or null "args" reads as no dict), or an element that is no dict
NotADict == [not_a_dict |-> TRUE]

IsDict(s) == "not_a_dict" \notin DOMAIN s

UpperMap ==
    [c \in {CharAt(Lowers, i) : i \in 1..Len(Lowers)} |->
        CharAt(Uppers, CHOOSE i \in 1..Len(Lowers) : CharAt(Lowers, i) = c)]

UpperChar(c) == IF c \in DOMAIN UpperMap THEN UpperMap[c] ELSE c

RECURSIVE Upper(_)
Upper(s) == IF s = "" THEN "" ELSE UpperChar(CharAt(s, 1)) \o Upper(SubSeq(s, 2, Len(s)))

\* the loop of _coerce_action_steps
RECURSIVE CoerceLoop(_)
CoerceLoop(actions_raw) ==
    IF actions_raw = <<>> THEN <<>>
    ELSE LET s == Head(actions_raw) IN
         IF ~IsDict(s) THEN CoerceLoop(Tail(actions_raw))
         ELSE LET intent_name == Upper(Get(s, "intent", ""))
                  intent == IF intent_name \in Intent THEN intent_name ELSE "UNKNOWN"
                  args == IF "args" \in DOMAIN s /\ IsDict(s.args) THEN s.args ELSE EmptyArgs
              IN  <<ActionStep(intent, args)>> \o CoerceLoop(Tail(actions_raw))

coerce_action_steps_keep_all(actions_raw) == CoerceLoop(actions_raw)

coerce_action_steps(actions_raw) ==
    LET steps == CoerceLoop(actions_raw) IN
    IF \E i \in 1..Len(steps) : steps[i].intent = "CLOSE_ALL_APPS"
    THEN <<steps[CHOOSE i \in 1..Len(steps) :
                    /\ steps[i].intent = "CLOSE_ALL_APPS"
                    /\ \A j \in 1..(i - 1) : steps[j].intent # "CLOSE_ALL_APPS"]>>
    ELSE steps

(***************************************************************************)
(* core/helpers.py: URL detection.  The regular expressions of detect_url  *)
(* are computed as Python's re computes them: leftmost match, greedy       *)
(* repetition with backtracking, alternatives tried in the order written.  *)
(***************************************************************************)
TLDS == <<"com", "net", "org", "io", "ai", "app", "dev", "edu", "gov", "co", "uk", "au">>

Digits == "0123456789"

InChars(c, chars) == \E i \in 1..Len(chars) : CharAt(chars, i) = c

\* \w
IsWordChar(c) == InChars(c, Lowers) \/ InChars(c, Uppers) \/ InChars(c, Digits) \/ c = "_"

\* [a-z0-9-]
IsDomainChar(c) == InChars(c, Lowers) \/ InChars(c, Digits) \/ c = "-"

\* the length of the run of whitespace that starts at position i of t
RECURSIVE SpaceRun(_, _)
SpaceRun(t, i) == IF i <= Len(t) /\ IsSpace(CharAt(t, i)) THEN 1 + SpaceRun(t, i + 1) ELSE 0

\* the length of the run of [a-z0-9-] that starts at position i of t
RECURSIVE DomainRun(_, _)
DomainRun(t, i) ==
    IF i <= Len(t) /\ IsDomainChar(CharAt(t, i)) THEN 1 + DomainRun(t, i + 1) ELSE 0

\* the length of the run of [^\s] that starts at position i of t
RECURSIVE NonSpaceRun(_, _)
NonSpaceRun(t, i) ==
    IF i <= Len(t) /\ ~IsSpace(CharAt(t, i)) THEN 1 + NonSpaceRun(t, i + 1) ELSE 0

\* \b between positions i - 1 and i of t
WordBoundary(t, i) ==
    LET before == i > 1 /\ IsWordChar(CharAt(t, i - 1))
        after == i <= Len(t) /\ IsWordChar(CharAt(t, i))
    IN  before # after

\* the length of the match of \bdot\s+{tld}\b at position i of t; 0 when none
SpokenDotAt(t, i, tld) ==
    LET sp == SpaceRun(t, i + 3)
        e == i + 3 + sp + Len(tld)
    IN  IF /\ WordBoundary(t, i)
           /\ StartsAt(t, i, "dot")
           /\ sp >= 1
           /\ StartsAt(t, i + 3 + sp, tld)
           /\ WordBoundary(t, e)
        THEN e - i
        ELSE 0

\* re.sub(rf"\bdot\s+{tld}\b", f".{tld}", t), from position i on
RECURSIVE SubSpokenDot(_, _, _)
SubSpokenDot(t, i, tld) ==
    IF i > Len(t) THEN ""
    ELSE LET n == SpokenDotAt(t, i, tld) IN
         IF n > 0 THEN "." \o tld \o SubSpokenDot(t, i + n, tld)
         ELSE CharAt(t, i) \o SubSpokenDot(t, i + 1, tld)

\* the loop over the tlds
RECURSIVE SubSpokenDots(_, _)
SubSpokenDots(t, k) ==
    IF k > Len(TLDS) THEN t ELSE SubSpokenDots(SubSpokenDot(t, 1, TLDS[k]), k + 1)

\* re.sub(r"\s*c\s*", c, t) for c "." or "/", from position i on
RECURSIVE SubAround(_, _, _)
SubAround(t, i, c) ==
    IF i > Len(t) THEN ""
    ELSE LET sp == SpaceRun(t, i) IN
         IF i + sp <= Len(t) /\ CharAt(t, i + sp) = c
         THEN c \o SubAround(t, i + sp + 1 + SpaceRun(t, i + sp + 1), c)
         ELSE CharAt(t, i) \o SubAround(t, i + 1, c)

\* the first of the TLD alternatives that the text at position q starts with
TldAt(t, q) ==
    IF \E k \in 1..Len(TLDS) : StartsAt(t, q, TLDS[k])
    THEN TLDS[CHOOSE k \in 1..Len(TLDS) :
                 /\ StartsAt(t, q, TLDS[k])
                 /\ \A j \in 1..(k - 1) : ~StartsAt(t, q, TLDS[j])]
    ELSE ""

\* [a-z0-9-]+(?:\.[a-z0-9-]+)*\.TLD from position j: the runs of the chain take all
\* they can, and the last dot of the chain that a TLD follows ends the domain.  The
\* answer is the position of the last character of the TLD, 0 when nothing matches.
RECURSIVE ChainEnd(_, _)
ChainEnd(t, p) ==
    \* p is the position after a run; the dots of the chain from p on, latest first
    IF p + 1 <= Len(t) /\ CharAt(t, p) = "." /\ IsDomainChar(CharAt(t, p + 1))
    THEN LET later == ChainEnd(t, p + 1 + DomainRun(t, p + 1)) IN
         IF later # 0 THEN later
         ELSE IF TldAt(t, p + 1) # "" THEN p + Len(TldAt(t, p + 1))
         ELSE 0
    ELSE 0

\* the whole pattern at position i: the position of the last character, 0 when none
UrlMatchEnd(t, i) ==
    LET j == IF StartsAt(t, i, "https://") THEN i + 8
             ELSE IF StartsAt(t, i, "http://") THEN i + 7
             ELSE i
        run == DomainRun(t, j)
        e == IF run = 0 THEN 0 ELSE ChainEnd(t, j + run)
    IN  IF e = 0 THEN 0
        ELSE IF e + 1 <= Len(t) /\ CharAt(t, e + 1) = "/"
        THEN e + 1 + NonSpaceRun(t, e + 2)
        ELSE e

\* url.rstrip(".,)")
RECURSIVE RStripPunct(_)
RStripPunct(s) ==
    IF s # "" /\ CharAt(s, Len(s)) \in {".", ",", ")"}
    THEN RStripPunct(SubSeq(s, 1, Len(s) - 1))
    ELSE s

detect_url(text) ==
    IF Falsy(text) THEN None
    ELSE LET t0 == Lower(Strip(text))
             t1 == SubSpokenDots(t0, 1)
             t2 == SubAround(t1, 1, ".")
             t == SubAround(t2, 1, "/")
         IN  IF \A i \in 1..Len(t) : UrlMatchEnd(t, i) = 0
             THEN None
             ELSE LET i == CHOOSE k \in 1..Len(t) :
                               /\ UrlMatchEnd(t, k) # 0
                               /\ \A j \in 1..(k - 1) : UrlMatchEnd(t, j) = 0
                      url == RStripPunct(Strip(SubSeq(t, i, UrlMatchEnd(t, i))))
                  IN  IF url = "" THEN None
                      ELSE IF StartsWith(url, "http://") \/ StartsWith(url, "https://")
                      THEN url
                      ELSE "https://" \o url

(***************************************************************************)
(* core/helpers.py: close-target detection                                 *)
(***************************************************************************)
\* APP_ALIASES: the keys, and the alias list of each key
APP_ALIAS_KEYS ==
    {"google chrome", "visual studio code", "messages", "system settings", "notes",
     "music", "itunes", "microsoft teams", "microsoft word", "microsoft excel"}

APP_ALIASES(key) ==
    CASE key = "google chrome" -> {"chrome"}
      [] key = "visual studio code" -> {"vscode", "code", "vs code"}
      [] key = "messages" -> {"message"}
      [] key = "system settings" -> {"settings"}
      [] key = "notes" -> {"note"}
      [] key = "music" -> {"itunes"}
      [] key = "itunes" -> {"music"}
      [] key = "microsoft teams" -> {"teams"}
      [] key = "microsoft word" -> {"word"}
      [] key = "microsoft excel" -> {"excel"}
      [] OTHER -> {}

\* al.split()[0]: the first whitespace-separated word of a string that has one
FirstWord(al) ==
    LET s == LStrip(al) IN SubSeq(s, 1, NonSpaceRun(s, 1))

\* the set `aliases` that detect_close_targets builds for one running app
AliasesOf(app) ==
    LET al == Lower(app) IN
    {al} \cup UNION {APP_ALIASES(key) : key \in {k \in APP_ALIAS_KEYS : Contains(al, k)}}
         \cup {IF Contains(al, " ") THEN FirstWord(al) ELSE al}

\* The loop `for a in aliases` takes the first alias, in the iteration order of a set
\* of strings, that occurs in the text: every alias that occurs can be that one.
MatchPositions(t, app) ==
    {Find(t, a) : a \in {x \in AliasesOf(app) : Len(x) >= 3 /\ Contains(t, x)}}

\* is the text one that detect_close_targets looks into at all
HasCloseKeyword(raw) ==
    /\ ~Falsy(raw)
    /\ \E kw \in {"close", "quit", "exit"} : Contains(Lower(raw), kw)
    /\ ~\E phrase \in {"close all", "quit everything", "close everything"} :
           Contains(Lower(raw), phrase)

\* matches.sort(key=idx) (a stable sort) and the dedupe, for the positions idx[k]
\* chosen for the running apps k that matched
SortAndDedupe(running_apps, idx) ==
    LET M == DOMAIN idx
        Before(j, k) == idx[j] < idx[k] \/ (idx[j] = idx[k] /\ j < k)
        Rank(k) == Cardinality({j \in M : Before(j, k)}) + 1
        sorted == [n \in 1..Cardinality(M) |-> running_apps[CHOOSE k \in M : Rank(k) = n]]
        Keep(n) == \A m \in 1..(n - 1) : sorted[m] # sorted[n]
        kept == {n \in 1..Len(sorted) : Keep(n)}
        KRank(n) == Cardinality({m \in kept : m < n}) + 1
    IN  [r \in 1..Cardinality(kept) |-> sorted[CHOOSE n \in kept : KRank(n) = r]]

\* every list detect_close_targets(raw, running_apps) can return
detect_close_targets(raw, running_apps) ==
    IF ~HasCloseKeyword(raw) THEN {<<>>}
    ELSE LET t == Lower(raw)
             M == {k \in 1..Len(running_apps) : MatchPositions(t, running_apps[k]) # {}}
             Pos == [k \in M |-> MatchPositions(t, running_apps[k])]
             Choices == {idx \in [M -> UNION {Pos[k] : k \in M}] :
                            \A k \in M : idx[k] \in Pos[k]}
         IN  {SortAndDedupe(running_apps, idx) : idx \in Choices}

(***************************************************************************)
(* core/helpers.py: redact.  The three patterns of _SECRET_PATTERNS, each  *)
(* substituted in turn with re.IGNORECASE; lt is t in lower case.          *)
(***************************************************************************)
IsAlnum(c) == InChars(c, Lowers) \/ InChars(c, Uppers) \/ InChars(c, Digits)

\* the length of the run of [A-Za-z0-9] that starts at position i of t
RECURSIVE AlnumRun(_, _)
AlnumRun(t, i) == IF i <= Len(t) /\ IsAlnum(CharAt(t, i)) THEN 1 + AlnumRun(t, i + 1) ELSE 0

\* the length of the run of [A-Z ], case ignored, that starts at position i of t
RECURSIVE KeyNameRun(_, _)
KeyNameRun(t, i) ==
    IF i <= Len(t) /\ (InChars(CharAt(t, i), Lowers) \/ InChars(CharAt(t, i), Uppers)
                       \/ CharAt(t, i) = " ")
    THEN 1 + KeyNameRun(t, i + 1)
    ELSE 0

\* the length of the match of pattern k of _SECRET_PATTERNS at position i; 0 when none
SecretAt(k, t, lt, i) ==
    CASE k = 1 ->
           \* sk-[A-Za-z0-9]{20,}
           LET n == AlnumRun(t, i + 3) IN
           IF StartsAt(lt, i, "sk-") /\ n >= 20 THEN 3 + n ELSE 0
      [] k = 2 ->
           \* -----BEGIN [A-Z ]+PRIVATE KEY-----
           LET run == KeyNameRun(t, i + 11)
               ends == {j \in 1..run : StartsAt(lt, i + 11 + j, "private key-----")}
           IN  IF StartsAt(lt, i, "-----begin ") /\ ends # {}
               THEN 11 + (CHOOSE j \in ends : \A j2 \in ends : j2 <= j) + 16
               ELSE 0
      [] k = 3 ->
           \* password\s*[:=]\s*\S+
           LET s1 == SpaceRun(t, i + 8)
               s2 == SpaceRun(t, i + 9 + s1)
               n == NonSpaceRun(t, i + 9 + s1 + s2)
           IN  IF /\ StartsAt(lt, i, "password")
                  /\ CharAt(t, i + 8 + s1) \in {":", "="}
                  /\ n >= 1
               THEN 9 + s1 + s2 + n
               ELSE 0

\* re.sub(p, "[REDACTED]", t, flags=re.IGNORECASE) for pattern k, from position i on
RECURSIVE SubSecret(_, _, _, _)
SubSecret(k, t, lt, i) ==
    IF i > Len(t) THEN ""
    ELSE LET n == SecretAt(k, t, lt, i) IN
         IF n > 0 THEN "[REDACTED]" \o SubSecret(k, t, lt, i + n)
         ELSE CharAt(t, i) \o SubSecret(k, t, lt, i + 1)

redact(text) ==
    LET out1 == SubSecret(1, text, Lower(text), 1)
        out2 == SubSecret(2, out1, Lower(out1), 1)
    IN  SubSecret(3, out2, Lower(out2), 1)

(***************************************************************************)
(* The inputs of the model: what the microphone, the planner and the       *)
(* operating system can answer.                                            *)
(***************************************************************************)
\* listen_to_user() at the start of a turn: None is "no input"
Utterances ==
    {None, "   ", "hey", "quit nexus", "restart yourself",
     "close safari", "close it and open google.com"}

\* the utterances that _apply_overrides is also called with on its own
OverrideUtterances == {"quit safari and notes, open google.com"}

\* the "actions" elements the planner can write
RawSteps ==
    {[intent |-> "OPEN_APP", args |-> [app_name |-> "Notes"]],
     [intent |-> "contacts", args |-> [name |-> "Sam"]],
     [intent |-> "CLOSE_APP", args |-> [app_name |-> "Finder", force |-> "yes"]],
     [intent |-> "close_all_apps"],
     [intent |-> "CLOSE_ALL_APPS", args |-> [scope |-> "all"]],
     [intent |-> "FLY_TO_MOON", args |-> [speed |-> "fast"]],
     [intent |-> "EXIT"],
     [intent |-> "STOP_NEXUS"]}

RawPlans == UNION {[1..n -> RawSteps] : n \in 0..MaxPlanLen}

\* plan.response_text
ResponseTexts == {"", "Okay, going to sleep."}

\* get_running_apps()
AppLists == {<<>>, <<"Notes", "Safari">>}

\* get_frontmost_app()
FrontApps == {None, "Safari", "Finder"}

\* listen_to_user() after a confirmation prompt
Replies == {None, "", "yes please", "nope nope", "please don't", "hmm"}


\* detect_url, detect_close_targets and (raw or "").lower() of _apply_overrides,
\* worked out once for each utterance and each list of running apps of the model
DetectedUrl == [u \in Utterances \cup OverrideUtterances |-> detect_url(u)]

DetectedCloseTargets ==
    [u \in Utterances \cup OverrideUtterances, apps \in AppLists |-> detect_close_targets(u, apps)]

Lowered == [u \in Utterances \cup OverrideUtterances |-> Lower(StrOrEmpty(u))]

\* the narrator's text
Followup == "Here is what happened."

\* final_reply of _handle_turn
FinalReply(text, narrated) == IF narrated THEN text \o " " \o Followup ELSE text

\* redact of the texts that _handle_turn logs, worked out once
Redacted ==
    [t \in (Utterances \ {None}) \cup {FinalReply(r, n) : r \in ResponseTexts, n \in BOOLEAN}
       |-> redact(t)]

(***************************************************************************)
(* core/orchestrator.py: _apply_overrides                                  *)
(***************************************************************************)
\* the loop of the URL override over the actions, `filtered` being its result
RECURSIVE UrlFilter(_, _)
UrlFilter(actions, detected_url) ==
    IF actions = <<>> THEN <<>>
    ELSE LET st == Head(actions)
             rest == UrlFilter(Tail(actions), detected_url)
         IN  IF st.intent = "OPEN_URL"
             THEN IF Strip(StrOrEmpty(Get(st.args, "url", None))) = ""
                  THEN <<ActionStep("OPEN_URL", [url |-> detected_url])>> \o rest
                  ELSE <<st>> \o rest
             ELSE IF /\ st.intent = "OPEN_APP"
                     /\ Contains(Lower(StrOrEmpty(Get(st.args, "app_name", None))), ".")
             THEN rest
             ELSE <<st>> \o rest

UrlOverride(actions, raw) ==
    LET detected_url == DetectedUrl[raw] IN
    IF Falsy(detected_url) THEN actions
    ELSE LET filtered == UrlFilter(actions, detected_url)
             has_open_url == \E i \in 1..Len(actions) : actions[i].intent = "OPEN_URL"
         IN  IF ~has_open_url
             THEN Append(filtered, ActionStep("OPEN_URL", [url |-> detected_url]))
             ELSE filtered

\* the close-target override that keeps the CLOSE_APP steps of the plan
CloseOverride_keep_close(actions, raw, close_targets, front) ==
    IF close_targets # <<>>
    THEN [k \in 1..Len(close_targets) |->
             ActionStep("CLOSE_APP", [app_name |-> close_targets[k]])] \o actions
    ELSE actions

\* the close-target override, for the list close_targets that detect_close_targets
\* returned and the answer front of get_frontmost_app()
CloseOverride(actions, raw, close_targets, front) ==
    IF close_targets # <<>>
    THEN LET keep == SelectSeq(actions, LAMBDA st : st.intent # "CLOSE_APP")
             close_steps == [k \in 1..Len(close_targets) |->
                                ActionStep("CLOSE_APP", [app_name |-> close_targets[k]])]
         IN  close_steps \o keep
    ELSE LET t == Lowered[raw] IN
         IF /\ \E k \in {"close this", "close it", "quit this", "quit it"} : Contains(t, k)
            /\ ~\E i \in 1..Len(actions) : actions[i].intent \in {"CLOSE_APP", "CLOSE_ALL_APPS"}
            /\ ~Falsy(front)
         THEN <<ActionStep("CLOSE_APP", [app_name |-> front])>> \o actions
         ELSE actions

apply_overrides(actions, raw, close_targets, front) ==
    CloseOverride(UrlOverride(actions, raw), raw, close_targets, front)

(***************************************************************************)
(* State                                                                   *)
(***************************************************************************)
VARIABLES
    pc,              \* where the orchestrator is: the state of the turn state machine
    turns,           \* processed turns so far
    events,          \* the rows of the event store's table, oldest first
    chat_history,    \* self.chat_history
    interrupt_flag,  \* skills/voice.py _interrupt_flag
    speech_threads,  \* the texts of the speak_text threads started and not yet run
    raw,             \* the utterance of the turn
    raw_actions,     \* the planner's raw "actions" of the turn
    plan_actions,    \* plan.actions as plan_turn returns them
    response_text,   \* plan.response_text
    close_targets,   \* what detect_close_targets answered in _apply_overrides
    actions,         \* plan.actions after _apply_overrides
    expanded,        \* expanded_actions
    gated,           \* the steps of the Command given to check_command
    safety,          \* the decision of check_command
    confirmation,    \* the reply to the confirmation prompt
    listens,         \* listen_to_user() calls of _execute_actions in this turn
    idx,             \* the position of the loop over the actions in _execute_actions
    executed,        \* the steps given to _execute_step in this turn, in order
    tool_actions,    \* tool_bundle["actions"]
    spoken,          \* what _handle_turn itself spoke in this turn, in order
    planner,         \* how plan_turn ended in this turn
    fault,           \* the call whose exception left run(), if any
    fn_call,         \* a function of the program and the arguments it is called with
    fn_result,       \* what that call returned
    current_speech_process, \* skills/voice.py _current_speech_process: a `say` process, or 0 for None
    say_running,     \* the `say` processes that are alive
    spawned,         \* the `say` processes started so far
    open_streams,    \* the audio input streams that are open
    speak,           \* for each thread, where its call of speak_text is, and its locals
    mem_pc,          \* where _handle_memory_ops is
    memory_read,     \* plan.memory_read
    memory_write,    \* plan.memory_write
    tool_memory,     \* the memory_read and memory_write entries of tool_bundle
    notes,           \* the rows of the note store, oldest first
    conf_ans,        \* the reply to "Should I save that to memory?"
    mem_listens      \* listen_to_user() calls of _handle_memory_ops

vars ==
    <<pc, turns, events, chat_history, interrupt_flag, speech_threads, raw, raw_actions, plan_actions,
      response_text, close_targets, actions, expanded, gated, safety, confirmation,
      listens, idx, executed, tool_actions, spoken, planner, fault, fn_call, fn_result,
      current_speech_process, say_running, spawned, open_streams, speak,
      mem_pc, memory_read, memory_write, tool_memory, notes, conf_ans, mem_listens>>

FnVars == <<fn_call, fn_result>>

VoiceVars == <<current_speech_process, say_running, spawned, open_streams, speak>>

MemVars == <<mem_pc, memory_read, memory_write, tool_memory, notes, conf_ans, mem_listens>>

\* the variables that the turn state machine leaves alone
OtherVars == <<FnVars, VoiceVars, MemVars>>

NotPlanned == "<not called>"

NoDecision == SafetyDecision(FALSE, "<no decision>", FALSE, None)

NotAsked == "<not asked>"

NotGated == <<[intent |-> "<not gated>", args |-> EmptyArgs]>>

\* no function called
NoCall == [op |-> "<none>"]

NotApplied == [applied |-> FALSE]

\* None where the code expects an object or a dict
Absent == [is_none |-> TRUE]

Returned(value) == [applied |-> TRUE, value |-> value]

\* the orchestrator as constructed, the event store empty
InitOrchestrator ==
    /\ pc = "Sleeping"
    /\ turns = 0
    /\ events = <<>>
    /\ speech_threads = <<>>
    /\ chat_history = <<>>
    /\ interrupt_flag = FALSE
    /\ raw = None
    /\ raw_actions = <<>>
    /\ plan_actions = <<>>
    /\ response_text = ""
    /\ close_targets = <<>>
    /\ actions = <<>>
    /\ expanded = <<>>
    /\ gated = NotGated
    /\ safety = NoDecision
    /\ confirmation = NotAsked
    /\ listens = 0
    /\ idx = 0
    /\ executed = <<>>
    /\ tool_actions = <<>>
    /\ spoken = <<>>
    /\ planner = NotPlanned
    /\ fault = None

\* no function called
InitFn ==
    /\ fn_call = NoCall
    /\ fn_result = NotApplied

\* the threads that call speak_text: the one of _handle_turn and the reply thread
Callers == {"main", "reply"}

NotSpeaking ==
    [pc |-> "idle", ret |-> "<none>", interrupted |-> FALSE, exit |-> "<none>",
     proc |-> 0, returned |-> NotApplied]

\* skills/voice.py as imported: nothing is playing, no stream is open
InitVoice ==
    /\ current_speech_process = 0
    /\ say_running = {}
    /\ spawned = 0
    /\ open_streams = 0
    /\ speak = [c \in Callers |-> NotSpeaking]

\* a plan without memory operations, the note store empty
InitMem ==
    /\ mem_pc = "idle"
    /\ memory_read = Absent
    /\ memory_write = Absent
    /\ tool_memory = EmptyArgs
    /\ notes = <<>>
    /\ conf_ans = NotAsked
    /\ mem_listens = 0

Init ==
    /\ InitOrchestrator
    /\ InitFn
    /\ InitVoice
    /\ InitMem

\* what a turn starts from
TurnReset ==
    /\ raw_actions' = <<>>
    /\ plan_actions' = <<>>
    /\ response_text' = ""
    /\ close_targets' = <<>>
    /\ actions' = <<>>
    /\ expanded' = <<>>
    /\ gated' = NotGated
    /\ safety' = NoDecision
    /\ confirmation' = NotAsked
    /\ listens' = 0
    /\ idx' = 0
    /\ executed' = <<>>
    /\ tool_actions' = <<>>
    /\ planner' = NotPlanned

\* speak_text(text): stop_speaking(), clear_interrupt(), then the playback
SpeakText(texts) ==
    /\ spoken' = spoken \o texts
    /\ interrupt_flag' = IF texts # <<>> THEN FALSE ELSE interrupt_flag

\* the entry of tool_bundle["actions"] without the intent of its step
ToolResult_no_intent(intent, ok) == [intent |-> "", ok |-> ok]

ToolResult(intent, ok) == [intent |-> intent, ok |-> ok]

\* an exception of `call` that nothing catches: it leaves _handle_turn,
\* _run_conversation and run, whose `finally` does nothing, and the program ends
Raises(call) ==
    /\ pc' = "Crashed"
    /\ fault' = call
    /\ speech_threads' = <<>>

(***************************************************************************)
(* core/orchestrator.py: the conversation loop                             *)
(***************************************************************************)
\* the "limit" that _run_conversation gives to pg_get_recent_history
HistoryLimit == 10

\* pg_append_event: one more row
AppendEvent(rows, kind, text) == Append(rows, [kind |-> kind, text |-> text])

\* pg_get_recent_history: the last `limit` user_msg and assistant_reply rows, oldest
\* first, each as a line of the history
pg_get_recent_history(rows, limit) ==
    LET msgs == SelectSeq(rows, LAMBDA e : e.kind \in {"user_msg", "assistant_reply"})
        first == IF Len(msgs) > limit THEN Len(msgs) - limit + 1 ELSE 1
    IN  [i \in 1..(Len(msgs) - first + 1) |->
            LET e == msgs[first + i - 1] IN
            IF e.kind = "user_msg" THEN "User: " \o e.text ELSE "Nexus: " \o e.text]

\* run: wait_for_wake_word() returned true; _run_conversation up to its loop
WakeWord ==
    /\ pc = "Sleeping"
    /\ \/ LET history == pg_get_recent_history(events, HistoryLimit) IN
            /\ chat_history' = history
            /\ spoken' = IF history # <<>> THEN <<"I'm back. As we were saying...">>
                         ELSE <<"I'm listening, what's on your mind.">>
            /\ interrupt_flag' = FALSE
            /\ pc' = "Conversing"
            /\ UNCHANGED <<fault, speech_threads>>
       \/ \* self.mcp.call raised
          /\ Raises("pg_get_recent_history")
          /\ UNCHANGED <<chat_history, spoken, interrupt_flag>>
    /\ UNCHANGED <<OtherVars, planner, events, turns, raw, raw_actions, plan_actions,
                   response_text, close_targets, actions, expanded, gated, safety,
                   confirmation, listens, idx, executed, tool_actions>>

SHUTDOWN_PHRASES ==
    {"shut yourself down", "shut down yourself", "terminate yourself", "close yourself",
     "kill yourself", "stop yourself", "quit nexus", "exit nexus", "turn yourself off"}

RESTART_PHRASES_none == {}

RESTART_PHRASES == {"restart yourself", "reboot yourself", "reload yourself"}

\* only an absent or blank utterance is noise
IsNoise_blank_only(u) == Falsy(u) \/ Strip(u) = ""

IsNoise(u) == Falsy(u) \/ Strip(u) = "" \/ Len(Strip(u)) < 4

\* _handle_turn from listen_to_user() to the logged user event; the recording
\* of an utterance outlasts the reply thread of the turn before
Listen(u) ==
    /\ pc = "Conversing"
    /\ speech_threads = <<>>
    /\ IF IsNoise(u)
       THEN \* return True: this call of _handle_turn has heard u and done nothing
            /\ raw' = u
            /\ TurnReset
            /\ spoken' = <<>>
            /\ UNCHANGED <<OtherVars, pc, fault, events, turns, chat_history, interrupt_flag,
                           speech_threads>>
       ELSE IF \E phrase \in SHUTDOWN_PHRASES : Contains(Lowered[u], phrase)
       THEN /\ raw' = u
            /\ TurnReset
            /\ spoken' = <<"Shutting down. Goodbye.">>
            /\ interrupt_flag' = FALSE
            /\ speech_threads' = <<>>
            /\ pc' = "Terminated"
            /\ UNCHANGED <<OtherVars, fault, events, turns, chat_history>>
       ELSE IF \E phrase \in RESTART_PHRASES : Contains(Lowered[u], phrase)
       THEN /\ raw' = u
            /\ TurnReset
            /\ spoken' = <<"Restarting myself now.">>
            /\ interrupt_flag' = FALSE
            /\ speech_threads' = <<>>
            /\ pc' = "Terminated"
            /\ UNCHANGED <<OtherVars, fault, events, turns, chat_history>>
       ELSE /\ turns < MaxTurns
            /\ raw' = u
            /\ TurnReset
            /\ spoken' = <<>>
            /\ \/ /\ turns' = turns + 1
                  /\ events' = AppendEvent(events, "user_msg", Redacted[u])
                  /\ pc' = "Planning"
                  /\ UNCHANGED <<fault, speech_threads>>
               \/ \* self.mcp.call raised
                  /\ Raises("pg_append_event")
                  /\ UNCHANGED <<turns, events>>
            /\ UNCHANGED <<OtherVars, chat_history, interrupt_flag>>

\* plan_turn: the planner's JSON, its actions normalised by _coerce_action_steps.
\* The plans carry no memory_read and no memory_write, so _handle_memory_ops
\* between the overrides and expand_steps does nothing
PlanTurn(actions_raw, text) ==
    /\ pc = "Planning"
    /\ raw_actions' = actions_raw
    /\ plan_actions' = coerce_action_steps(actions_raw)
    /\ response_text' = text
    /\ planner' = "ok"
    /\ pc' = "Overrides"
    /\ UNCHANGED <<OtherVars, fault, speech_threads, events, turns, chat_history,
                   interrupt_flag, raw, close_targets, actions, expanded, gated, safety,
                   confirmation, listens, idx, executed, tool_actions, spoken>>

\* the ways plan_turn fails: the call of the model raises, its answer is not
\* JSON, its answer fails _validate_turn_plan_dict
PlannerFailures == {"call_error", "non_json", "invalid"}

\* plan_turn when the planner fails: the exception of the call is not caught;
\* the other two return TurnPlan(memory_read=None, memory_write=None, actions=[]),
\* a plan that carries no response text
PlanTurnFails(failure) ==
    /\ pc = "Planning"
    /\ planner' = failure
    /\ IF failure = "call_error"
       THEN /\ Raises("plan_turn")
            /\ UNCHANGED <<raw_actions, plan_actions, response_text>>
       ELSE /\ raw_actions' = <<>>
            /\ plan_actions' = <<>>
            /\ response_text' = ""
            /\ pc' = "Overrides"
            /\ UNCHANGED <<fault, speech_threads>>
    /\ UNCHANGED <<OtherVars, events, turns, chat_history, interrupt_flag, raw,
                   close_targets, actions, expanded, gated, safety, confirmation,
                   listens, idx, executed, tool_actions, spoken>>

\* _apply_overrides for the running apps read before planning, then the start of
\* the thread that speaks the planner's response
ApplyOverrides(app_list, front) ==
    /\ pc = "Overrides"
    /\ \E ct \in DetectedCloseTargets[raw, app_list] :
         /\ close_targets' = ct
         /\ actions' = apply_overrides(plan_actions, raw, ct, front)
    /\ speech_threads' = IF response_text # "" THEN Append(speech_threads, response_text)
                         ELSE speech_threads
    /\ pc' = "Expand"
    /\ UNCHANGED <<OtherVars, fault, planner, spoken, interrupt_flag, events, turns, chat_history, raw,
                   raw_actions, plan_actions, response_text, expanded, gated, safety,
                   confirmation, listens, idx, executed, tool_actions>>

HasIntent_never(steps, intent) == FALSE

HasIntent(steps, intent) == \E i \in 1..Len(steps) : steps[i].intent = intent

\* _handle_turn from expand_steps to the sleep check, then _execute_actions up to
\* its confirmation prompt; apps is what get_running_apps() answers to expand_steps
ExpandAndGate(apps) ==
    /\ pc = "Expand"
    /\ LET exp == expand_steps(actions, apps)
           d == check_command(exp)
       IN  /\ expanded' = exp
           /\ raw_actions' = <<>>
           /\ plan_actions' = <<>>
           /\ close_targets' = <<>>
           /\ IF HasIntent(exp, "EXIT")
              THEN /\ SpeakText(IF response_text = "" THEN <<"Going to sleep.">> ELSE <<>>)
                   /\ pc' = "Sleeping"
                   /\ UNCHANGED <<gated, safety, idx, tool_actions>>
              ELSE IF exp = <<>>
              THEN /\ pc' = "Narrate"
                   /\ UNCHANGED <<gated, safety, idx, tool_actions, spoken, interrupt_flag>>
              ELSE /\ gated' = exp
                   /\ safety' = d
                   /\ IF ~d.allowed
                      THEN /\ SpeakText(<<Or(d.prompt, "I cannot do that.")>>)
                           /\ tool_actions' = Append(tool_actions, ToolResult("BLOCKED", FALSE))
                           /\ pc' = "Narrate"
                           /\ idx' = idx
                      ELSE IF d.requires_confirmation
                      THEN /\ SpeakText(<<Or(d.prompt, "This requires confirmation.")>>)
                           /\ pc' = "AwaitingConfirmation"
                           /\ UNCHANGED <<idx, tool_actions>>
                      ELSE /\ pc' = "Executing"
                           /\ idx' = 1
                           /\ UNCHANGED <<tool_actions, spoken, interrupt_flag>>
    /\ UNCHANGED <<OtherVars, fault, planner, speech_threads, events, turns, chat_history, raw,
                   response_text, actions, confirmation, listens, executed>>

\* _execute_actions: the one listen_to_user() after the prompt, and its reading
Confirm_silence_is_yes(reply) ==
    /\ pc = "AwaitingConfirmation"
    /\ confirmation' = reply
    /\ listens' = listens + 1
    /\ IF Falsy(reply) \/ is_confirmation_positive(reply)
       THEN /\ SpeakText(<<"Confirmed.">>)
            /\ pc' = "Executing"
            /\ idx' = 1
       ELSE /\ SpeakText(<<"Okay, cancelled.">>)
            /\ pc' = "Narrate"
            /\ idx' = idx
    /\ UNCHANGED <<OtherVars, fault, planner, speech_threads, events, turns, chat_history, raw,
                   raw_actions, plan_actions, response_text, close_targets, actions,
                   expanded, gated, safety, executed, tool_actions>>

Confirm(reply) ==
    /\ pc = "AwaitingConfirmation"
    /\ confirmation' = reply
    /\ listens' = listens + 1
    /\ IF is_confirmation_positive(reply)
       THEN /\ SpeakText(<<"Confirmed.">>)
            /\ pc' = "Executing"
            /\ idx' = 1
       ELSE /\ SpeakText(<<"Okay, cancelled.">>)
            /\ pc' = "Narrate"
            /\ idx' = idx
    /\ UNCHANGED <<OtherVars, fault, planner, speech_threads, events, turns, chat_history, raw,
                   raw_actions, plan_actions, response_text, close_targets, actions,
                   expanded, gated, safety, executed, tool_actions>>

\* the `ok` values that _execute_step can record for a step: the skills, the Apple
\* tools and the memory service succeed or fail as they please
StepOutcomes(step) ==
    LET intent == step.intent
        args == step.args
    IN  CASE intent \in {"STOP_NEXUS", "RESTART_NEXUS"} -> {TRUE}
          [] intent = "CREATE_NOTE" ->
               IF Strip(StrOrEmpty(Get(args, "content", None))) = "" THEN {FALSE} ELSE BOOLEAN
          [] intent = "SEND_MESSAGE" ->
               IF \/ Strip(StrOrEmpty(Get(args, "recipient", None))) = ""
                  \/ Strip(StrOrEmpty(Get(args, "message", None))) = ""
               THEN {FALSE} ELSE BOOLEAN
          [] intent = "READ_MESSAGES" ->
               IF Strip(StrOrEmpty(Get(args, "contact", None))) = "" THEN {FALSE} ELSE BOOLEAN
          [] intent \in {"CONTACTS", "MAIL", "REMINDERS", "CALENDAR", "MAPS"} -> BOOLEAN
          [] intent = "REMEMBER_THIS" ->
               IF Falsy(Get(args, "content", "")) THEN {FALSE} ELSE BOOLEAN
          [] intent = "RECALL_MEMORY" ->
               IF Falsy(Get(args, "query", "")) THEN {FALSE} ELSE {TRUE}
          [] intent = "UPDATE_MEMORY" ->
               IF Falsy(Get(args, "query", "")) \/ Falsy(Get(args, "new_content", ""))
               THEN {FALSE} ELSE BOOLEAN
          [] intent = "FORGET_THIS" ->
               IF Falsy(Get(args, "query", "")) THEN {FALSE} ELSE BOOLEAN
          [] intent = "LIST_MEMORIES" -> {TRUE}
          [] intent \in {"OPEN_APP", "CLOSE_APP", "SEARCH_WEB", "OPEN_URL", "TYPE_TEXT",
                         "READ_SCREEN"} -> BOOLEAN
          [] OTHER -> {FALSE}

\* the steps whose handler reaches self.apple.call, which raises when the session
\* is gone or the tool call fails; only _resolve_contact catches it
StepRaises(step) ==
    /\ step.intent \in {"CREATE_NOTE", "SEND_MESSAGE", "READ_MESSAGES", "CONTACTS", "MAIL",
                        "REMINDERS", "CALENDAR", "MAPS"}
    /\ StepOutcomes(step) = BOOLEAN

\* _execute_actions: one round of the loop over the actions, the interrupt check
\* first and then _execute_step
ExecStep_cancel_after ==
    /\ pc = "Executing"
    /\ idx \in 1..Len(expanded)
    /\ LET step == expanded[idx] IN
       \E ok \in StepOutcomes(step) :
         /\ executed' = Append(executed, step)
         /\ IF interrupt_flag
            THEN /\ tool_actions' = tool_actions \o <<ToolResult(step.intent, ok),
                                                     ToolResult("CANCELLED", FALSE)>>
                 /\ pc' = "Narrate"
                 /\ idx' = idx
                 /\ UNCHANGED <<spoken, interrupt_flag, speech_threads>>
            ELSE /\ tool_actions' = Append(tool_actions, ToolResult(step.intent, ok))
                 /\ IF step.intent \in {"STOP_NEXUS", "RESTART_NEXUS"}
                    THEN /\ SpeakText(<<IF step.intent = "STOP_NEXUS"
                                        THEN "Shutting down. Goodbye."
                                        ELSE "Restarting myself now.">>)
                         /\ speech_threads' = <<>>
                         /\ pc' = "Terminated"
                         /\ idx' = idx
                    ELSE /\ idx' = idx + 1
                         /\ pc' = IF idx = Len(expanded) THEN "Narrate" ELSE "Executing"
                         /\ UNCHANGED <<spoken, interrupt_flag, speech_threads>>
    /\ UNCHANGED <<OtherVars, fault, planner, events, turns, chat_history, raw, raw_actions, plan_actions,
                   response_text, close_targets, actions, expanded, gated, safety,
                   confirmation, listens>>

ExecStep ==
    /\ pc = "Executing"
    /\ idx \in 1..Len(expanded)
    /\ IF interrupt_flag
       THEN \* speak_quick("Cancelled."): no clear_interrupt()
            /\ spoken' = Append(spoken, "Cancelled.")
            /\ tool_actions' = Append(tool_actions, ToolResult("CANCELLED", FALSE))
            /\ pc' = "Narrate"
            /\ UNCHANGED <<idx, executed, interrupt_flag, speech_threads, fault>>
       ELSE LET step == expanded[idx] IN
            /\ executed' = Append(executed, step)
            /\ \/ \E ok \in StepOutcomes(step) :
                    /\ tool_actions' = Append(tool_actions, ToolResult(step.intent, ok))
                    /\ IF step.intent \in {"STOP_NEXUS", "RESTART_NEXUS"}
                       THEN /\ SpeakText(<<IF step.intent = "STOP_NEXUS"
                                           THEN "Shutting down. Goodbye."
                                           ELSE "Restarting myself now.">>)
                            /\ speech_threads' = <<>>
                            /\ pc' = "Terminated"
                            /\ idx' = idx
                       ELSE /\ idx' = idx + 1
                            /\ pc' = IF idx = Len(expanded) THEN "Narrate" ELSE "Executing"
                            /\ UNCHANGED <<spoken, interrupt_flag, speech_threads>>
                    /\ fault' = fault
               \/ \* self.apple.call raised: nothing is recorded for the step
                  /\ StepRaises(step)
                  /\ Raises("apple.call")
                  /\ UNCHANGED <<tool_actions, idx, spoken, interrupt_flag>>
    /\ UNCHANGED <<OtherVars, planner, events, turns, chat_history, raw, raw_actions,
                   plan_actions, response_text, close_targets, actions, expanded, gated,
                   safety, confirmation, listens>>

\* a speak_text thread that _handle_turn started runs: stop_speaking(),
\* clear_interrupt() and the playback of its text. The thread runs at any point
\* of its turn; the reply has been spoken once the thread is gone
SpeechThread ==
    /\ pc \notin {"Terminated", "Crashed"}
    /\ \E i \in 1..Len(speech_threads) :
         /\ speech_threads' = SubSeq(speech_threads, 1, i - 1)
                                 \o SubSeq(speech_threads, i + 1, Len(speech_threads))
    /\ interrupt_flag' = FALSE
    /\ UNCHANGED <<OtherVars, fault, planner, events, pc, turns, chat_history, raw, raw_actions,
                   plan_actions, response_text, close_targets, actions, expanded,
                   gated, safety, confirmation, listens, idx, executed, tool_actions,
                   spoken>>

\* skills/voice.py listen_for_interrupt heard an interrupt command: set_interrupt().
\* No code of the repository calls listen_for_interrupt; it is run here as a
\* listener beside the loop of _execute_actions, the one place that reads the flag
ListenForInterrupt ==
    /\ pc = "Executing"
    /\ ~interrupt_flag
    /\ interrupt_flag' = TRUE
    /\ UNCHANGED <<OtherVars, fault, planner, speech_threads, events, pc, turns, chat_history, raw,
                   raw_actions, plan_actions, response_text, close_targets, actions,
                   expanded, gated, safety, confirmation, listens, idx, executed,
                   tool_actions, spoken>>

RETRIEVAL_INTENTS ==
    {"SEARCH_WEB", "READ_SCREEN", "READ_MESSAGES", "RECALL_MEMORY", "LIST_MEMORIES",
     "CONTACTS", "MAPS"}

\* needs_narration of _handle_turn; the loop over the steps stops at the first hit
NeedsNarration ==
    \/ \E i \in 1..Len(tool_actions) : ~tool_actions[i].ok
    \/ \E i \in 1..Len(expanded) :
         \/ expanded[i].intent \in RETRIEVAL_INTENTS
         \/ /\ expanded[i].intent \in {"MAIL", "CALENDAR", "REMINDERS"}
            /\ Lower(Get(expanded[i].args, "operation", ""))
                 \in {"list", "search", "unread", "latest"}

\* _handle_turn after _execute_actions: narration, the logged reply, the history
\* and whose payload carries tool_bundle, tool_actions as it stands at this step
Narrate ==
    /\ pc = "Narrate"
    /\ LET final_reply == FinalReply(response_text, NeedsNarration)
       IN  \/ /\ SpeakText(IF NeedsNarration THEN <<Followup>> ELSE <<>>)
              /\ events' = AppendEvent(events, "assistant_reply", Redacted[final_reply])
              /\ chat_history' = chat_history
                                   \o <<"User: " \o raw, "Nexus: " \o final_reply>>
              /\ pc' = "Conversing"
              /\ UNCHANGED <<fault, speech_threads>>
           \/ \* the call of the model in narrate_turn raised
              /\ NeedsNarration
              /\ Raises("narrate_turn")
              /\ UNCHANGED <<spoken, interrupt_flag, events, chat_history>>
           \/ \* self.mcp.call raised after the narration
              /\ SpeakText(IF NeedsNarration THEN <<Followup>> ELSE <<>>)
              /\ Raises("pg_append_event")
              /\ UNCHANGED <<events, chat_history>>
    /\ UNCHANGED <<OtherVars, planner, turns, raw, raw_actions, plan_actions,
                   response_text, close_targets, actions, expanded, gated, safety,
                   confirmation, listens, idx, executed, tool_actions>>

Next ==
    \/ WakeWord
    \/ \E u \in Utterances : Listen(u)
    \/ \E actions_raw \in RawPlans, text \in ResponseTexts : PlanTurn(actions_raw, text)
    \/ \E failure \in PlannerFailures : PlanTurnFails(failure)
    \/ \E app_list \in AppLists, front \in FrontApps : ApplyOverrides(app_list, front)
    \/ \E apps \in AppLists : ExpandAndGate(apps)
    \/ \E reply \in Replies : Confirm(reply)
    \/ ExecStep
    \/ SpeechThread
    \/ ListenForInterrupt
    \/ Narrate

Spec == Init /\ [][Next]_vars

(***************************************************************************)
(* Properties of a turn, under Spec.                                       *)
(***************************************************************************)
InSpoken(text) == \E i \in 1..Len(spoken) : spoken[i] = text

\* the safety gate was asked in this turn
Gated == gated # NotGated

\* the first step of the gated list that check_step blocks; 0 when there is none
FirstBlocked ==
    IF \E i \in 1..Len(gated) : ~check_step(gated[i]).allowed
    THEN CHOOSE i \in 1..Len(gated) :
            /\ ~check_step(gated[i]).allowed
            /\ \A j \in 1..(i - 1) : check_step(gated[j]).allowed
    ELSE 0

\* C1: if the safety gate blocks any step of the turn's action list, no step of the
\* list is executed in the turn, neither those before the blocked step nor those
\* after it; the block message is spoken and the turn goes back to Conversing
\* (it is at the narration that leads there, or there, unless a call of the
\* narration raised, which is the matter of C14).
C1_BlockedPlanNotExecuted ==
    (Gated /\ FirstBlocked # 0)
        => /\ executed = <<>>
           /\ ~safety.allowed
           /\ InSpoken(Or(check_step(gated[FirstBlocked]).prompt, "I cannot do that."))
           /\ tool_actions = <<ToolResult("BLOCKED", FALSE)>>
           /\ pc \in {"Narrate", "Conversing", "Crashed"}
           /\ pc = "Crashed" => fault \in {"narrate_turn", "pg_append_event"}

\* C1 happens: the gate blocked a list whose second step is the blocked one, and the
\* turn is back in Conversing
C1_Witness ==
    /\ Gated
    /\ FirstBlocked = 2
    /\ executed = <<>>
    /\ pc = "Conversing"

\* a reply to the confirmation prompt was heard and read as positive
PositiveReply == listens = 1 /\ is_confirmation_positive(confirmation)

\* C2: when the decision on the plan requires confirmation, the orchestrator speaks
\* the prompt of the decision, listens exactly once, and executes steps only if that
\* one reply is read as positive; on any other reply it speaks the cancellation,
\* executes no step and goes back to Conversing (unless a call of the narration
\* raised, which is the matter of C14).  No step whose own decision requires
\* confirmation is executed in a turn without a positive reply earlier in the turn.
C2_ConfirmationBeforeExecution ==
    /\ listens <= 1
    /\ (Gated /\ safety.allowed /\ safety.requires_confirmation)
          => /\ InSpoken(Or(safety.prompt, "This requires confirmation."))
             /\ IF pc = "AwaitingConfirmation"
                THEN listens = 0 /\ executed = <<>>
                ELSE /\ listens = 1
                     /\ IF is_confirmation_positive(confirmation)
                        THEN InSpoken("Confirmed.")
                        ELSE /\ executed = <<>>
                             /\ InSpoken("Okay, cancelled.")
                             /\ pc \in {"Narrate", "Conversing", "Crashed"}
                             /\ pc = "Crashed"
                                  => fault \in {"narrate_turn", "pg_append_event"}
    /\ (\E i \in 1..Len(executed) : check_step(executed[i]).requires_confirmation)
          => PositiveReply
    /\ listens = 1 => Gated /\ safety.allowed /\ safety.requires_confirmation

\* C2 happens: a plan that required confirmation was confirmed and all of it executed
C2_Witness ==
    /\ Gated
    /\ safety.requires_confirmation
    /\ PositiveReply
    /\ Len(executed) = Len(expanded)
    /\ Len(executed) >= 2
    /\ check_step(executed[1]).requires_confirmation
    /\ pc = "Conversing"

ContainsPhraseOf(clean, phrases) == \E phrase \in phrases : Contains(clean, phrase)

\* a reply that is absent, empty, matches no positive phrase or prefix, or holds both
\* a positive and a negative phrase
AmbiguousOrSilent(reply) ==
    \/ Falsy(reply)
    \/ LET clean == Strip(Lower(reply)) IN
         \/ /\ ~ContainsPhraseOf(clean, POSITIVE_WORDS)
            /\ ~\E pre \in POSITIVE_PREFIXES : StartsWith(clean, pre)
         \/ /\ ContainsPhraseOf(clean, POSITIVE_WORDS)
            /\ ContainsPhraseOf(clean, NEGATIVE_WORDS)

\* C5: an ambiguous or silent reply never authorises execution: when the reply to the
\* confirmation prompt is absent, empty, matches no positive phrase or prefix, or
\* holds both a positive and a negative phrase, it is read as negative and no step of
\* the plan is executed.
C5_AmbiguousReplyExecutesNothing ==
    (listens = 1 /\ AmbiguousOrSilent(confirmation))
        => /\ ~is_confirmation_positive(confirmation)
           /\ executed = <<>>
           /\ pc # "Executing"

\* the turn is past _apply_overrides
Resolved == pc \in {"Expand", "AwaitingConfirmation", "Executing", "Narrate"}

\* C6: in the action list that leaves _apply_overrides, whenever some action is
\* CLOSE_ALL_APPS it is the only action of the list; so the expansion never holds
\* CLOSE_APP steps of a CLOSE_ALL_APPS next to other actions.
C6_CloseAllIsAlone ==
    (Resolved /\ HasIntent(actions, "CLOSE_ALL_APPS")) => Len(actions) = 1

\* the question of the CLOSE_ALL_APPS rule of check_step
CloseAllPrompt == check_step(ActionStep("CLOSE_ALL_APPS", EmptyArgs)).prompt

\* C8: the gate decides on the plan as _apply_overrides left it, not expanded, and
\* CLOSE_ALL_APPS is expanded only after that; so a turn whose plan is CLOSE_ALL_APPS
\* asks the CLOSE_ALL_APPS confirmation, whatever applications run.
C8_GateBeforeExpansion ==
    /\ Gated => gated = actions
    /\ (/\ pc \in {"AwaitingConfirmation", "Executing", "Narrate"}
        /\ actions = <<ActionStep("CLOSE_ALL_APPS", EmptyArgs)>>)
          => InSpoken(CloseAllPrompt)

Cancelled == ToolResult("CANCELLED", FALSE)

CancelledEntries == {i \in 1..Len(tool_actions) : tool_actions[i] = Cancelled}

ExecutedRecorded ==
    /\ Len(executed) <= Len(tool_actions)
    /\ \A i \in 1..Len(executed) : tool_actions[i].intent = executed[i].intent

StepTaken == pc = "Executing" /\ executed' # executed

\* C13: a failed step never aborts the rest of the plan: whatever becomes of a step
\* of an approved plan, its result is recorded on its own (ok = false when it
\* failed) and the loop goes on to the next step, every step after it being
\* executed in its turn.
C13_FailedStepDoesNotAbort ==
    [][(StepTaken /\ expanded[idx].intent \notin {"STOP_NEXUS", "RESTART_NEXUS"})
          => /\ Len(tool_actions') = Len(tool_actions) + 1
             /\ SubSeq(tool_actions', 1, Len(tool_actions)) = tool_actions
             /\ tool_actions'[Len(tool_actions')].intent = expanded[idx].intent
             /\ idx' = idx + 1
             /\ pc' = IF idx < Len(expanded) THEN "Executing" ELSE "Narrate"]_vars

\* the calls of the memory service and of the Apple tools made during a turn
ExternalCalls == {"pg_append_event", "apple.call"}

\* C14: a failure of an external tool or memory call made during a turn becomes a
\* result with ok = false and never a fatal exception: the turn completes and the
\* orchestrator stays in the conversation loop.
C14_NoFatalException == ~(pc = "Crashed" /\ fault \in ExternalCalls)

\* the user heard something in the turn: _handle_turn spoke, or the thread of the
\* planner's response ran
HeardReply == spoken # <<>> \/ (response_text # "" /\ speech_threads = <<>>)

\* C15: a planner failure (call error, non-JSON output, output failing validation)
\* is never fatal: the turn executes no action, the user hears a reply, and the
\* orchestrator goes back to Conversing.
C15_PlannerFailureHandled ==
    (planner \in PlannerFailures)
        => /\ ~(pc = "Crashed" /\ fault = "plan_turn")
           /\ executed = <<>>
           /\ pc = "Conversing" => HeardReply

PlanHasExit(steps) == \E i \in 1..Len(steps) : steps[i].intent = "EXIT"

\* how a turn ended
Blocked == Gated /\ ~safety.allowed

Declined == listens = 1 /\ ~is_confirmation_positive(confirmation)

Interrupted == CancelledEntries # {}

FailedStep == \E i \in 1..Len(tool_actions) : ~tool_actions[i].ok

Logged(intent) == \E i \in 1..Len(tool_actions) : tool_actions[i].intent = intent

\* C16: every turn that ends blocked, declined at confirmation, interrupted or with
\* a failed step both speaks a message and records the outcome in the results that
\* the turn logs (tool_actions as the reply event carries it); a declined
\* confirmation is logged as cancelled; no processed turn ends with neither a
\* spoken nor a logged outcome.
C16_OutcomeSpokenAndLogged ==
    pc = "Conversing"
        => /\ Blocked => spoken # <<>> /\ Logged("BLOCKED")
           /\ Declined => InSpoken("Okay, cancelled.") /\ Logged("CANCELLED")
           /\ Interrupted => InSpoken("Cancelled.") /\ Logged("CANCELLED")
           /\ FailedStep => spoken # <<>>
           /\ (planner # NotPlanned /\ ~PlanHasExit(actions))
                => \/ spoken # <<>>
                   \/ events # <<>> /\ events[Len(events)].kind = "assistant_reply"

\* the fixed literal shutdown and restart phrases
FastPathPhrases ==
    {"shut yourself down", "shut down yourself", "terminate yourself", "close yourself",
     "kill yourself", "stop yourself", "quit nexus", "exit nexus", "turn yourself off",
     "restart yourself", "reboot yourself", "reload yourself"}

SaysFastPathPhrase(u) ==
    /\ u # None
    /\ \E phrase \in FastPathPhrases : Contains(Lowered[u], phrase)

\* C19: an utterance that is no noise and contains a shutdown or restart phrase
\* takes the orchestrator from Conversing to Terminated in the step that hears it:
\* no event is logged, the planner is not called, nothing is overridden, gated,
\* confirmed or executed; the planner is only ever called for other utterances.
C19_FastPath ==
    [][/\ (pc = "Conversing" /\ pc' # "Conversing" /\ SaysFastPathPhrase(raw'))
            => /\ pc' = "Terminated"
               /\ planner' = NotPlanned
               /\ events' = events
               /\ actions' = <<>> /\ expanded' = <<>>
               /\ ~Gated' /\ listens' = 0 /\ executed' = <<>>
       /\ planner' # NotPlanned => ~SaysFastPathPhrase(raw')]_vars

\* C19 happens: "restart yourself" ended the program and no plan was made
C19_Witness ==
    /\ pc = "Terminated"
    /\ raw = "restart yourself"
    /\ planner = NotPlanned
    /\ spoken = <<"Restarting myself now.">>

\* C20: the conversation leaves for Sleeping exactly when the plan of the turn
\* holds an EXIT action: the step after the overrides goes to Sleeping when, and
\* only when, the plan holds one (the overrides neither add nor drop it), and
\* nothing else goes to Sleeping, whatever the response text says.
C20_SleepIffExit ==
    [][/\ (pc = "Expand" /\ pc' # "Expand")
            => /\ pc' = "Sleeping" <=> PlanHasExit(actions)
               /\ PlanHasExit(actions) <=> PlanHasExit(coerce_action_steps(raw_actions))
       /\ (pc # "Sleeping" /\ pc' = "Sleeping") => pc = "Expand"]_vars

\* C20 happens: a turn whose plan held EXIT beside another step ended the
\* conversation and executed nothing
C20_Witness ==
    /\ pc = "Sleeping"
    /\ turns > 0
    /\ Len(actions) > 1
    /\ PlanHasExit(actions)
    /\ executed = <<>>

(***************************************************************************)
(* The functions of the program on their own: a call is drawn from the     *)
(* calls below and the function is applied to it.                          *)
(***************************************************************************)
\* app_name values of a step
AppNames == PROTECTED_APPS \cup {"Safari", "finder", " Finder ", "", None}

\* args of a step
StepArgs ==
    {EmptyArgs}
      \cup {[app_name |-> a] : a \in AppNames}
      \cup {[app_name |-> a, force |-> "yes"] : a \in AppNames}
      \cup {[query |-> "weather"], [url |-> "https://google.com"], [content |-> "buy milk"],
            [recipient |-> "Bob", message |-> "hi"], [recipient |-> "Bob"],
            [message |-> "hi"], [person |-> "Bob", message |-> "hi"],
            [operation |-> "list"], [operation |-> "create"], [operation |-> "Send"]}

\* the elements of a planner's "actions": dicts with and without intent and args,
\* and an element that is no dict
RawElements ==
    RawSteps \cup {NotADict, [args |-> [app_name |-> "Notes"]],
                   [intent |-> "Close_All_Apps", args |-> NotADict]}

\* the steps of a plan given to expand_steps
ExpandElements ==
    {ActionStep("CLOSE_ALL_APPS", EmptyArgs), ActionStep("CLOSE_ALL_APPS", [scope |-> "all"]),
     ActionStep("OPEN_APP", [app_name |-> "Notes"]),
     ActionStep("CLOSE_APP", [app_name |-> "Safari"])}

\* answers of get_running_apps()
RunningApps ==
    {<<>>, <<"Safari">>, <<"Notes", "Safari">>, <<"Safari", "Notes">>,
     <<"Mail", "Notes", "Safari">>}

(***************************************************************************)
(* skills/system.py: the close skill.  installed is the sorted list of the *)
(* apps of /Applications, running the answer of get_running_apps().        *)
(***************************************************************************)
\* the first element of a list that has the property, or None
FirstThat(xs, P(_)) ==
    IF \E i \in 1..Len(xs) : P(xs[i])
    THEN xs[CHOOSE i \in 1..Len(xs) : P(xs[i]) /\ \A j \in 1..(i - 1) : ~P(xs[j])]
    ELSE None

\* _resolve_app_name(requested): the app to use, or None with an error.  Its
\* PROTECTED_APPS (skills/system.py) has the elements of the set of core/safety.py
resolve_app_name(requested, installed, running) ==
    LET req == Strip(StrOrEmpty(requested))
        low == Lower(req)
        Found(a) == [resolved |-> a, err |-> None]
        Failed(e) == [resolved |-> None, err |-> e]
        exact == FirstThat(installed, LAMBDA a : Lower(a) = low)
        plural == FirstThat(installed, LAMBDA a : Lower(a) = low \o "s")
        contains == SelectSeq(installed, LAMBDA a : Contains(Lower(a), low))
        running_contains == SelectSeq(running, LAMBDA a : Contains(Lower(a), low))
    IN  IF req = "" THEN Failed("Missing app_name")
        ELSE IF req \in PROTECTED_APPS THEN Failed("Blocked")
        ELSE IF \E i \in 1..Len(installed) : installed[i] = req THEN Found(req)
        ELSE IF exact # None THEN Found(exact)
        ELSE IF CharAt(low, Len(low)) # "s" /\ plural # None THEN Found(plural)
        ELSE IF Len(contains) = 1 THEN Found(contains[1])
        ELSE IF Len(contains) > 1 THEN Failed("ambiguous")
        ELSE IF Len(running_contains) = 1 THEN Found(running_contains[1])
        ELSE IF Len(running_contains) > 1 THEN Failed("matches multiple running apps")
        ELSE Failed("not found")

\* close_app(step): the app that `tell application ... to quit` is run for, or
\* None when the name is not resolved
close_app(step, installed, running) ==
    resolve_app_name(Get(step.args, "app_name", None), installed, running).resolved

\* the app names of the CLOSE_APP steps given to close_app
CloseRequests ==
    {"Safari", "safari", "Note", "Finder", " Finder ", "finder", "system settings",
     "Settings", "Sa", ""}

\* the apps of /Applications, sorted
InstalledApps == {<<>>, <<"Notes", "Safari">>}

\* answers of get_running_apps() while the skill runs
SkillRunningApps == {<<>>, <<"Safari", "System Settings">>, <<"Safari", "Sandbox">>}

\* the steps of a Command given to check_command
CommandElements ==
    {ActionStep("CLOSE_APP", [app_name |-> "Safari"]),
     ActionStep("CLOSE_APP", [app_name |-> "Notes"]),
     ActionStep("CLOSE_APP", [app_name |-> "Finder"]),
     ActionStep("OPEN_APP", [app_name |-> "Notes"]),
     ActionStep("CLOSE_ALL_APPS", EmptyArgs),
     ActionStep("STOP_NEXUS", EmptyArgs),
     ActionStep("SEND_MESSAGE", [recipient |-> "Bob", message |-> "hi"]),
     ActionStep("MAIL", [operation |-> "send"])}

\* the steps of a plan given to _apply_overrides
OverrideElements ==
    {ActionStep("OPEN_URL", [url |-> ""]),
     ActionStep("OPEN_URL", [url |-> "https://www.google.com"]),
     ActionStep("OPEN_APP", [app_name |-> "google.com"]),
     ActionStep("OPEN_APP", [app_name |-> "Notes"]),
     ActionStep("CLOSE_APP", [app_name |-> "Notes"]),
     ActionStep("CLOSE_ALL_APPS", EmptyArgs)}

\* the utterances and the running apps given to detect_close_targets
CloseUtterances ==
    {None, "open safari", "close safari and close chrome",
     "close chrome then safari and google", "quit music", "close all of safari"}

CloseAppLists ==
    {<<>>, <<"Google Chrome", "Safari">>, <<"Safari", "Google Chrome">>,
     <<"Music", "iTunes">>, <<"iTunes", "Music">>, <<"Safari", "Notes", "Safari">>}

\* replies given to is_confirmation_positive
ConfirmationTexts ==
    {None, "", "  ", "yes please", "nope nope", " OK ", "No", "oh no", "ya know",
     "nope go ahead", "i said cancel it", "al fine", "hmm", "its okay", "yeah no way"}

\* the phrases of a set that occur in the reply.  A phrase that does not occur
\* falls through the body of the loop wherever it stands in the order, so an
\* iteration order is given as an order of the phrases that occur.
PhrasesIn(user_text, phrases) ==
    IF Falsy(user_text) THEN {}
    ELSE {phrase \in phrases : Contains(Strip(Lower(user_text)), phrase)}

\* the orders in which a frozenset can hand out these phrases
IterationOrders(S) ==
    {o \in [1..Cardinality(S) -> S] : \A i, j \in 1..Cardinality(S) : i # j => o[i] # o[j]}

ListsOf(S) == UNION {[1..n -> S] : n \in 0..MaxListLen}

FnCalls ==
    {[op |-> "check_step", step |-> ActionStep(i, a)] : i \in Intent, a \in StepArgs}
      \cup {[op |-> "_coerce_action_steps", actions_raw |-> l] : l \in ListsOf(RawElements)}
      \cup {[op |-> "expand_steps", actions |-> l, apps |-> r] :
               l \in ListsOf(ExpandElements), r \in RunningApps}
      \cup {[op |-> "check_command", steps |-> l] : l \in ListsOf(CommandElements)}
      \cup {[op |-> "detect_close_targets", raw |-> u, running_apps |-> r] :
               u \in CloseUtterances, r \in CloseAppLists}
      \cup {[op |-> "_apply_overrides",
              plan |-> TurnPlan(Absent, [should_store |-> FALSE, confidence |-> 70,
                                         note |-> Absent], l, text),
              raw |-> u, app_list |-> r, front |-> f] :
               l \in ListsOf(OverrideElements), text \in ResponseTexts,
               u \in {"hey", "close safari", "close it and open google.com"}
                       \cup OverrideUtterances,
               r \in AppLists, f \in FrontApps}
      \cup {[op |-> "is_confirmation_positive", user_text |-> t] : t \in ConfirmationTexts}
      \cup UNION {{[op |-> "iterate_phrases", user_text |-> t, positive_order |-> p,
                     negative_order |-> n] :
                      p \in IterationOrders(PhrasesIn(t, POSITIVE_WORDS)),
                      n \in IterationOrders(PhrasesIn(t, NEGATIVE_WORDS))} :
                   t \in ConfirmationTexts}
      \cup {[op |-> "close_app", step |-> ActionStep("CLOSE_APP", [app_name |-> a]),
              installed |-> i, running |-> r] :
               a \in CloseRequests, i \in InstalledApps, r \in SkillRunningApps}

FnInit ==
    /\ InitOrchestrator
    /\ InitVoice
    /\ InitMem
    /\ fn_call \in FnCalls
    /\ fn_result = NotApplied

OrchestratorVars ==
    <<pc, turns, events, chat_history, interrupt_flag, speech_threads, raw, raw_actions,
      plan_actions, response_text, close_targets, actions, expanded, gated, safety,
      confirmation, listens, idx, executed, tool_actions, spoken, planner, fault>>

CallCheckStep ==
    /\ fn_call.op = "check_step"
    /\ ~fn_result.applied
    /\ fn_result' = Returned(check_step(fn_call.step))
    /\ UNCHANGED <<fn_call, OrchestratorVars, VoiceVars, MemVars>>

CallCoerceActionSteps ==
    /\ fn_call.op = "_coerce_action_steps"
    /\ ~fn_result.applied
    /\ fn_result' = Returned(coerce_action_steps(fn_call.actions_raw))
    /\ UNCHANGED <<fn_call, OrchestratorVars, VoiceVars, MemVars>>

CallExpandSteps ==
    /\ fn_call.op = "expand_steps"
    /\ ~fn_result.applied
    /\ fn_result' = Returned(expand_steps(fn_call.actions, fn_call.apps))
    /\ UNCHANGED <<fn_call, OrchestratorVars, VoiceVars, MemVars>>

CallCheckCommand ==
    /\ fn_call.op = "check_command"
    /\ ~fn_result.applied
    /\ fn_result' = Returned(check_command(fn_call.steps))
    /\ UNCHANGED <<fn_call, OrchestratorVars, VoiceVars, MemVars>>

\* the call returns one of the lists that the iteration order of the alias sets allows
CallDetectCloseTargets ==
    /\ fn_call.op = "detect_close_targets"
    /\ ~fn_result.applied
    /\ \E targets \in detect_close_targets(fn_call.raw, fn_call.running_apps) :
          fn_result' = Returned(targets)
    /\ UNCHANGED <<fn_call, OrchestratorVars, VoiceVars, MemVars>>

\* _apply_overrides(plan, raw, app_list), with front the answer of get_frontmost_app():
\* it works on a copy of plan.actions and builds a new TurnPlan
CallApplyOverrides ==
    /\ fn_call.op = "_apply_overrides"
    /\ ~fn_result.applied
    /\ \E ct \in DetectedCloseTargets[fn_call.raw, fn_call.app_list] :
          fn_result' = Returned(TurnPlan(fn_call.plan.memory_read, fn_call.plan.memory_write,
                                         apply_overrides(fn_call.plan.actions, fn_call.raw, ct,
                                                         fn_call.front),
                                         fn_call.plan.response_text))
    /\ UNCHANGED <<fn_call, OrchestratorVars, VoiceVars, MemVars>>

CallIsConfirmationPositive ==
    /\ fn_call.op = "is_confirmation_positive"
    /\ ~fn_result.applied
    /\ fn_result' = Returned(is_confirmation_positive(fn_call.user_text))
    /\ UNCHANGED <<fn_call, OrchestratorVars, VoiceVars, MemVars>>

\* a run of is_confirmation_positive in which the sets iterate in these orders
CallIsConfirmationPositiveIterating ==
    /\ fn_call.op = "iterate_phrases"
    /\ ~fn_result.applied
    /\ fn_result' = Returned(is_confirmation_positive_iterating(
                                 fn_call.user_text, fn_call.positive_order,
                                 fn_call.negative_order))
    /\ UNCHANGED <<fn_call, OrchestratorVars, VoiceVars, MemVars>>

\* _execute_step gives a CLOSE_APP step to the handler close_app
CallCloseApp ==
    /\ fn_call.op = "close_app"
    /\ ~fn_result.applied
    /\ fn_result' = Returned(close_app(fn_call.step, fn_call.installed, fn_call.running))
    /\ UNCHANGED <<fn_call, OrchestratorVars, VoiceVars, MemVars>>

FnNext ==
    \/ CallCheckStep
    \/ CallCoerceActionSteps
    \/ CallExpandSteps
    \/ CallCheckCommand
    \/ CallDetectCloseTargets
    \/ CallApplyOverrides
    \/ CallIsConfirmationPositive
    \/ CallIsConfirmationPositiveIterating
    \/ CallCloseApp

FnSpec == FnInit /\ [][FnNext]_vars

(***************************************************************************)
(* Properties of the functions, under FnSpec.                              *)
(***************************************************************************)
CheckStepReturned == fn_call.op = "check_step" /\ fn_result.applied

\* C3: for every CLOSE_APP step whose app_name is a member of the protected-app set,
\* the decision of check_step is blocked (allowed = false), whatever the other
\* arguments of the step are.
C3_ProtectedCloseBlocked ==
    (/\ CheckStepReturned
     /\ fn_call.step.intent = "CLOSE_APP"
     /\ Get(fn_call.step.args, "app_name", None) \in PROTECTED_APPS)
        => ~fn_result.value.allowed

\* C3 happens: check_step returned for CLOSE_APP of Finder with a further argument
C3_Witness ==
    /\ CheckStepReturned
    /\ fn_call.step = ActionStep("CLOSE_APP", [app_name |-> "Finder", force |-> "yes"])
    /\ ~fn_result.value.allowed

\* C4 as stated: the unknown intent, like every intent without a rule, is blocked
\* with reason "no policy"
C4_UnknownReasonNoPolicy ==
    (CheckStepReturned /\ fn_call.step.intent = "UNKNOWN")
        => /\ ~fn_result.value.allowed
           /\ fn_result.value.reason = "no policy"

\* C4 amended: a step with the unknown intent is blocked with reason "unknown intent"
\* and is never allowed, whatever its arguments; every intent of Intent has a rule,
\* so no decision of check_step is the fallback with reason "no policy".
C4_UnknownBlocked ==
    CheckStepReturned
        => /\ fn_call.step.intent = "UNKNOWN"
                => /\ ~fn_result.value.allowed
                   /\ fn_result.value.reason = "unknown intent"
           /\ fn_result.value.reason # "no policy"

\* C4 happens: check_step returned for an UNKNOWN step that has arguments
C4_Witness ==
    /\ CheckStepReturned
    /\ fn_call.step = ActionStep("UNKNOWN", [app_name |-> "Safari"])
    /\ fn_result.value.reason = "unknown intent"

\* the dicts of a raw action list, in order
RawDicts(actions_raw) == SelectSeq(actions_raw, IsDict)

IsRawCloseAll(s) == Upper(Get(s, "intent", "")) = "CLOSE_ALL_APPS"

\* the step that a raw dict stands for
StepOfRaw(s) ==
    ActionStep(IF Upper(Get(s, "intent", "")) \in Intent THEN Upper(Get(s, "intent", ""))
               ELSE "UNKNOWN",
               IF "args" \in DOMAIN s /\ IsDict(s.args) THEN s.args ELSE EmptyArgs)

\* C7: normalising a raw action list that contains one or more CLOSE_ALL_APPS steps
\* yields exactly one step, the first CLOSE_ALL_APPS step of the list, and nothing
\* else; a raw list without CLOSE_ALL_APPS keeps all its steps, in order.
C7_CoerceCloseAllAlone ==
    (fn_call.op = "_coerce_action_steps" /\ fn_result.applied)
        => LET dicts == RawDicts(fn_call.actions_raw)
               steps == fn_result.value
               close_alls == {i \in 1..Len(dicts) : IsRawCloseAll(dicts[i])}
           IN  IF close_alls # {}
               THEN /\ Len(steps) = 1
                    /\ \E i \in close_alls :
                         /\ \A j \in close_alls : i <= j
                         /\ steps[1] = StepOfRaw(dicts[i])
               ELSE /\ Len(steps) = Len(dicts)
                    /\ \A i \in 1..Len(dicts) : steps[i] = StepOfRaw(dicts[i])

\* C7 happens: a list with two CLOSE_ALL_APPS steps of different arguments after
\* another step was normalised to the first of the two
C7_Witness ==
    /\ fn_call.op = "_coerce_action_steps"
    /\ fn_result.applied
    /\ fn_call.actions_raw =
         <<[intent |-> "OPEN_APP", args |-> [app_name |-> "Notes"]],
           [intent |-> "close_all_apps"],
           [intent |-> "CLOSE_ALL_APPS", args |-> [scope |-> "all"]]>>
    /\ fn_result.value = <<ActionStep("CLOSE_ALL_APPS", EmptyArgs)>>

\* where the output of expand_steps for step i of steps starts, less one, when n
\* applications run
RECURSIVE ExpandOffset(_, _, _)
ExpandOffset(steps, n, i) ==
    IF i = 1 THEN 0
    ELSE ExpandOffset(steps, n, i - 1)
           + (IF steps[i - 1].intent = "CLOSE_ALL_APPS" THEN n ELSE 1)

\* C9: expand_steps replaces each CLOSE_ALL_APPS step by one CLOSE_APP step per
\* running application, in the order of the running-apps answer, and passes every
\* other step through unchanged and in its original relative position; with no
\* CLOSE_ALL_APPS step the output equals the input.
C9_ExpandSteps ==
    (fn_call.op = "expand_steps" /\ fn_result.applied)
        => LET acts == fn_call.actions
               apps == fn_call.apps
               out == fn_result.value
               n == Len(apps)
           IN  /\ Len(out) = ExpandOffset(acts, n, Len(acts) + 1)
               /\ \A i \in 1..Len(acts) :
                    LET off == ExpandOffset(acts, n, i) IN
                    IF acts[i].intent = "CLOSE_ALL_APPS"
                    THEN \A k \in 1..n :
                           out[off + k] = ActionStep("CLOSE_APP", [app_name |-> apps[k]])
                    ELSE out[off + 1] = acts[i]
               /\ (\A i \in 1..Len(acts) : acts[i].intent # "CLOSE_ALL_APPS") => out = acts

\* C9 happens: a CLOSE_ALL_APPS step between two other steps, two applications running
C9_Witness ==
    /\ fn_call.op = "expand_steps"
    /\ fn_result.applied
    /\ fn_call.actions = <<ActionStep("OPEN_APP", [app_name |-> "Notes"]),
                           ActionStep("CLOSE_ALL_APPS", EmptyArgs),
                           ActionStep("CLOSE_APP", [app_name |-> "Safari"])>>
    /\ fn_call.apps = <<"Safari", "Notes">>
    /\ Len(fn_result.value) = 4


(***************************************************************************)
(* Claims about _apply_overrides                                           *)
(***************************************************************************)
\* _apply_overrides has returned
OverridesReturned == fn_call.op = "_apply_overrides" /\ fn_result.applied

\* the positions of the OPEN_URL steps of a plan that carry the url
UrlSteps(steps, url) ==
    {i \in 1..Len(steps) : steps[i].intent = "OPEN_URL" /\ Get(steps[i].args, "url", None) = url}

OpenUrlSteps(steps) == {i \in 1..Len(steps) : steps[i].intent = "OPEN_URL"}

\* C21: when detect_url finds a URL in the utterance, the plan that
\* _apply_overrides returns has exactly one OPEN_URL step that carries it;
\* applying the URL override to that plan again, with the same utterance,
\* changes nothing; and for an empty plan the result has exactly one OPEN_URL
\* step.
C21_UrlOverrideOnce ==
    (OverridesReturned /\ ~Falsy(DetectedUrl[fn_call.raw]))
      => /\ Cardinality(UrlSteps(fn_result.value.actions, DetectedUrl[fn_call.raw])) = 1
         /\ UrlOverride(fn_result.value.actions, fn_call.raw) = fn_result.value.actions
         /\ fn_call.plan.actions = <<>>
              => Cardinality(OpenUrlSteps(fn_result.value.actions)) = 1

\* the part of C21 that the code keeps: the override is idempotent, and an
\* empty plan gets exactly one OPEN_URL step, which carries the detected URL
C21_UrlOverrideIdempotent ==
    (OverridesReturned /\ ~Falsy(DetectedUrl[fn_call.raw]))
      => /\ UrlOverride(fn_result.value.actions, fn_call.raw) = fn_result.value.actions
         /\ fn_call.plan.actions = <<>>
              => /\ Cardinality(OpenUrlSteps(fn_result.value.actions)) = 1
                 /\ Cardinality(UrlSteps(fn_result.value.actions,
                                         DetectedUrl[fn_call.raw])) = 1

(***************************************************************************)
(* Claims about detect_close_targets                                       *)
(***************************************************************************)
\* the position at which a running app is first mentioned in the text t
FirstOccurrence(t, app) ==
    CHOOSE p \in MatchPositions(t, app) : \A q \in MatchPositions(t, app) : p <= q

Reversed(xs) == [i \in 1..Len(xs) |-> xs[Len(xs) + 1 - i]]

\* C22: detect_close_targets returns the running apps that the utterance
\* mentions, each once, ordered by the position of their first occurrence in
\* the utterance, and that list is the same whatever the order of the
\* running-apps list and whatever the order in which the aliases of an app
\* are tried; it returns the empty list when the utterance has none of
\* close, quit, exit or has a close-all phrase.
C22_CloseTargetsByPosition ==
    (fn_call.op = "detect_close_targets" /\ fn_result.applied)
      => LET r == fn_result.value
             t == Lower(StrOrEmpty(fn_call.raw))
             apps == fn_call.running_apps
         IN  IF ~HasCloseKeyword(fn_call.raw) THEN r = <<>>
             ELSE /\ \A i, j \in 1..Len(r) : i < j => r[i] # r[j]
                  /\ {r[i] : i \in 1..Len(r)}
                       = {apps[k] : k \in {n \in 1..Len(apps) : MatchPositions(t, apps[n]) # {}}}
                  /\ \A i, j \in 1..Len(r) :
                        i < j => FirstOccurrence(t, r[i]) <= FirstOccurrence(t, r[j])
                  /\ detect_close_targets(fn_call.raw, apps) = {r}
                  /\ detect_close_targets(fn_call.raw, Reversed(apps)) = {r}

(***************************************************************************)
(* Claims about check_command                                              *)
(***************************************************************************)
\* check_command has returned a decision that does not block the plan
CommandAllowed ==
    /\ fn_call.op = "check_command"
    /\ fn_result.applied
    /\ fn_result.value.allowed
    /\ fn_call.steps # <<>>

\* the steps of a plan whose own decision requires confirmation
Confirmable(steps) == SelectSeq(steps, LAMBDA st : check_step(st).requires_confirmation)

\* the targets of the CLOSE_APP steps among them, in plan order
TargetsOf(steps) ==
    LET cs == SelectSeq(Confirmable(steps), LAMBDA st : st.intent = "CLOSE_APP")
    IN  [k \in 1..Len(cs) |-> cs[k].args.app_name]

\* the prompts of the other steps among them, in plan order
OtherPromptsOf(steps) ==
    LET os == SelectSeq(Confirmable(steps), LAMBDA st : st.intent # "CLOSE_APP")
    IN  [k \in 1..Len(os) |-> check_step(os[k]).prompt]

\* T1, ..., and Tn
RECURSIVE CommaAnd(_)
CommaAnd(ts) ==
    IF Len(ts) = 1 THEN "and " \o ts[1] ELSE ts[1] \o ", " \o CommaAnd(Tail(ts))

\* the sentence for the targets T1..Tn, n >= 1
CloseSentence(ts) ==
    "I'll close "
      \o (CASE Len(ts) = 1 -> ts[1]
            [] Len(ts) = 2 -> ts[1] \o " and " \o ts[2]
            [] OTHER -> CommaAnd(ts))
      \o ". Confirm?"

\* C23: for a plan that is not blocked and whose steps that require
\* confirmation are all CLOSE_APP steps, with targets T1..Tn in plan order
\* (n >= 1), check_command asks for confirmation with the one prompt
\* "I'll close T1. Confirm?", "I'll close T1 and T2. Confirm?" or
\* "I'll close T1, ..., and Tn. Confirm?".
C23_ClosePromptMerged ==
    (/\ CommandAllowed
     /\ TargetsOf(fn_call.steps) # <<>>
     /\ OtherPromptsOf(fn_call.steps) = <<>>)
      => /\ fn_result.value.requires_confirmation
         /\ fn_result.value.prompt = CloseSentence(TargetsOf(fn_call.steps))

\* three CLOSE_APP steps have been merged into one sentence
C23_Witness ==
    /\ CommandAllowed
    /\ TargetsOf(fn_call.steps) = <<"Safari", "Notes", "Safari">>
    /\ fn_result.value.prompt = "I'll close Safari, Notes, and Safari. Confirm?"

EndsWith(s, p) == Len(p) <= Len(s) /\ SubSeq(s, Len(s) - Len(p) + 1, Len(s)) = p

\* C24: when steps other than CLOSE_APP require confirmation, the prompt of
\* check_command is the prompt of the first of them, after the close sentence
\* when there are close targets, and the prompts of the second and later ones
\* do not appear in it, with or without close targets.
C24_FirstOtherPromptOnly ==
    (CommandAllowed /\ OtherPromptsOf(fn_call.steps) # <<>>)
      => LET others == OtherPromptsOf(fn_call.steps)
             targets == TargetsOf(fn_call.steps)
             prompt == fn_result.value.prompt
         IN  /\ IF targets = <<>> THEN prompt = others[1]
                ELSE /\ StartsWith(prompt, CloseSentence(targets))
                     /\ EndsWith(prompt, others[1])
             /\ \A k \in 2..Len(others) :
                   others[k] # others[1] => ~Contains(prompt, others[k])

(***************************************************************************)
(* Claims about is_confirmation_positive                                   *)
(***************************************************************************)
\* the number of the first rule of the reference procedure that applies to
\* the lower-cased, trimmed text; rules 1, 3 and 5 answer true
FirstRule(clean) ==
    IF clean \in POSITIVE_WORDS THEN 1
    ELSE IF clean \in NEGATIVE_WORDS THEN 2
    ELSE IF \E w \in POSITIVE_WORDS : Len(w) > 2 /\ Contains(clean, w) THEN 3
    ELSE IF \E w \in NEGATIVE_WORDS : Len(w) > 2 /\ Contains(clean, w) THEN 4
    ELSE IF \E pre \in POSITIVE_PREFIXES : StartsWith(clean, pre) THEN 5
    ELSE 6

PositiveReturned == fn_call.op = "is_confirmation_positive" /\ fn_result.applied

\* C26: is_confirmation_positive(text) is the answer of the first rule that
\* applies to the lower-cased, trimmed text: exact positive phrase, true; exact
\* negative phrase, false; contains a positive phrase longer than 2, true;
\* contains a negative phrase longer than 2, false; starts with a positive
\* prefix, true; otherwise false.  "yes please" is true, "nope nope" is false
\* and the empty string is false.
C26_IsPositiveReference ==
    PositiveReturned
      => /\ fn_result.value
              <=> FirstRule(Strip(Lower(StrOrEmpty(fn_call.user_text)))) \in {1, 3, 5}
         /\ fn_call.user_text = "yes please" => fn_result.value
         /\ fn_call.user_text = "nope nope" => ~fn_result.value
         /\ fn_call.user_text = "" => ~fn_result.value

\* a reply that holds a negative phrase after a positive one was classified
\* by the positive containment rule, which comes first
C26_Witness ==
    /\ PositiveReturned
    /\ fn_call.user_text = "nope go ahead"
    /\ FirstRule(fn_call.user_text) = 3
    /\ fn_result.value

IteratedReturned == fn_call.op = "iterate_phrases" /\ fn_result.applied

\* C39: is_confirmation_positive is deterministic: in whatever orders the
\* positive and the negative phrase set are iterated, the answer for a reply
\* is the same, the one that depends on the text of the reply alone.
C39_IterationOrderIrrelevant ==
    IteratedReturned => (fn_result.value <=> is_confirmation_positive(fn_call.user_text))

\* a reply that holds the positive phrases "ok" and "okay" and starts with no
\* positive prefix, iterated with the phrase of two letters first
C39_Witness ==
    /\ IteratedReturned
    /\ fn_call.user_text = "its okay"
    /\ fn_call.positive_order = <<"ok", "okay">>
    /\ fn_call.negative_order = <<>>
    /\ fn_result.value

(***************************************************************************)
(* More claims about check_step and check_command                          *)
(***************************************************************************)
\* whom a SEND_MESSAGE or TYPE_TEXT step addresses: args "recipient", and
\* "person" for TYPE_TEXT
RecipientOf(step) ==
    IF step.intent = "TYPE_TEXT" THEN Get(step.args, "person", "")
    ELSE Get(step.args, "recipient", "")

MessageStepChecked ==
    /\ fn_call.op = "check_step"
    /\ fn_result.applied
    /\ fn_call.step.intent \in {"SEND_MESSAGE", "TYPE_TEXT"}

\* C27: a SEND_MESSAGE or TYPE_TEXT step is blocked unless it has both a
\* non-empty recipient and a non-empty message, and every such step that is
\* allowed requires confirmation.
C27_MessageStepsNeedBoth ==
    (MessageStepChecked /\ fn_result.value.allowed)
      => /\ ~Falsy(RecipientOf(fn_call.step))
         /\ ~Falsy(Get(fn_call.step.args, "message", ""))
         /\ fn_result.value.requires_confirmation

\* C27 as the code has it: a SEND_MESSAGE step is allowed when, and only
\* when, it has a non-empty recipient and a non-empty message; a TYPE_TEXT
\* step is allowed when, and only when, it has a non-empty message, with or
\* without a person; every such step that is allowed requires confirmation.
C27_MessageStepsGate ==
    MessageStepChecked
      => /\ fn_result.value.allowed
              <=> /\ ~Falsy(Get(fn_call.step.args, "message", ""))
                  /\ fn_call.step.intent = "SEND_MESSAGE"
                       => ~Falsy(Get(fn_call.step.args, "recipient", ""))
         /\ fn_result.value.allowed => fn_result.value.requires_confirmation

DestructiveIntents == {"CLOSE_APP", "CLOSE_ALL_APPS", "STOP_NEXUS", "RESTART_NEXUS"}

\* C28: the decision of check_step for an allowed CLOSE_APP step, and for
\* every CLOSE_ALL_APPS, STOP_NEXUS and RESTART_NEXUS step whatever its
\* arguments, requires confirmation; and the decision of check_command for a
\* plan that is not blocked and holds such a step requires confirmation.
C28_DestructiveAlwaysConfirm ==
    /\ (/\ fn_call.op = "check_step"
        /\ fn_result.applied
        /\ fn_call.step.intent \in DestructiveIntents)
         => /\ fn_call.step.intent # "CLOSE_APP" => fn_result.value.allowed
            /\ fn_result.value.allowed => fn_result.value.requires_confirmation
    /\ (/\ CommandAllowed
        /\ \E i \in 1..Len(fn_call.steps) : fn_call.steps[i].intent \in DestructiveIntents)
         => fn_result.value.requires_confirmation

\* a plan whose destructive step comes after a harmless one requires
\* confirmation
C28_Witness ==
    /\ CommandAllowed
    /\ fn_call.steps = <<ActionStep("OPEN_APP", [app_name |-> "Notes"]),
                         ActionStep("STOP_NEXUS", EmptyArgs)>>
    /\ fn_result.value.requires_confirmation

(***************************************************************************)
(* More claims about _apply_overrides                                      *)
(***************************************************************************)
\* the lists that detect_close_targets can have answered in the call
DetectedInCall == DetectedCloseTargets[fn_call.raw, fn_call.app_list]

\* the intents and app names of the steps of a list, in order
CloseAppNames(steps) ==
    LET cl == SelectSeq(steps, LAMBDA st : st.intent = "CLOSE_APP")
    IN  [k \in 1..Len(cl) |-> cl[k].args.app_name]

\* C29: when detect_close_targets finds at least one app, the action list that
\* _apply_overrides returns is one CLOSE_APP step for each detected app, in
\* the order of detection, followed by exactly the steps other than
\* CLOSE_APP of the list that the close-target override was given (the plan's
\* actions after the URL override), in their order; no CLOSE_APP step of the
\* plan is left.
C29_CloseTargetsReplace ==
    (OverridesReturned /\ <<>> \notin DetectedInCall)
      => \E ct \in DetectedInCall :
           LET out == fn_result.value.actions
               given == UrlOverride(fn_call.plan.actions, fn_call.raw)
               n == Len(ct)
           IN  /\ Len(out) >= n
               /\ \A k \in 1..n : out[k] = ActionStep("CLOSE_APP", [app_name |-> ct[k]])
               /\ SubSeq(out, n + 1, Len(out))
                    = SelectSeq(given, LAMBDA st : st.intent # "CLOSE_APP")
               /\ CloseAppNames(out) = ct

\* two apps were detected in the order of the utterance, which is not the
\* order of the running apps; the plan had a CLOSE_APP step between two
\* others, and the URL override had added a step
C29_Witness ==
    /\ OverridesReturned
    /\ fn_call.raw = "quit safari and notes, open google.com"
    /\ fn_call.app_list = <<"Notes", "Safari">>
    /\ fn_call.plan.actions = <<ActionStep("OPEN_APP", [app_name |-> "Notes"]),
                                ActionStep("CLOSE_APP", [app_name |-> "Notes"]),
                                ActionStep("CLOSE_ALL_APPS", EmptyArgs)>>
    /\ fn_result.value.actions = <<ActionStep("CLOSE_APP", [app_name |-> "Safari"]),
                                   ActionStep("CLOSE_APP", [app_name |-> "Notes"]),
                                   ActionStep("OPEN_APP", [app_name |-> "Notes"]),
                                   ActionStep("CLOSE_ALL_APPS", EmptyArgs),
                                   ActionStep("OPEN_URL", [url |-> "https://google.com"])>>

\* C30: _apply_overrides is a function of the plan, the utterance and the
\* running apps alone: the plan it returns has the memory_read, memory_write
\* and response_text of the plan it was given, and its action list is the
\* one that these three inputs give, whatever else the machine answers (the
\* frontmost app).
C30_ResolveDeterministic ==
    OverridesReturned
      => /\ fn_result.value.memory_read = fn_call.plan.memory_read
         /\ fn_result.value.memory_write = fn_call.plan.memory_write
         /\ fn_result.value.response_text = fn_call.plan.response_text
         /\ \A f \in FrontApps, ct \in DetectedInCall :
               fn_result.value.actions
                 = apply_overrides(fn_call.plan.actions, fn_call.raw, ct, f)

\* The parts of C30 that the code has: the plan returned has the memory_read,
\* memory_write and response_text of the plan given, and its action list is
\* the one that the plan, the utterance, the running apps and the frontmost
\* app give.
C30_ResolveFrame ==
    OverridesReturned
      => /\ fn_result.value.memory_read = fn_call.plan.memory_read
         /\ fn_result.value.memory_write = fn_call.plan.memory_write
         /\ fn_result.value.response_text = fn_call.plan.response_text
         /\ \E ct \in DetectedInCall :
               fn_result.value.actions
                 = apply_overrides(fn_call.plan.actions, fn_call.raw, ct, fn_call.front)

(***************************************************************************)
(* Claims about the gate and the close skill together                      *)
(***************************************************************************)
\* C34: a CLOSE_APP step that check_command lets through never makes the
\* close skill quit an application of the protected set.
C34_ProtectedNeverClosed ==
    (/\ fn_call.op = "close_app"
     /\ fn_result.applied
     /\ check_command(<<fn_call.step>>).allowed)
      => fn_result.value \notin PROTECTED_APPS

\* The part of C34 that the code has: the name that a gated CLOSE_APP step
\* carries, as it is written in the step, is never a name of the protected set.
C34_ProtectedNameNeverGiven ==
    (/\ fn_call.op = "close_app"
     /\ fn_result.applied
     /\ check_command(<<fn_call.step>>).allowed)
      => Strip(fn_call.step.args.app_name) \notin PROTECTED_APPS

(***************************************************************************)
(* Claims about the shape of the decisions                                 *)
(***************************************************************************)
\* a decision as the claim wants it: blocked decisions ask no confirmation and
\* have something to say; decisions that ask confirmation are allowed and
\* have a prompt
WellFormed(d) ==
    /\ ~d.allowed => (~d.requires_confirmation /\ ~Falsy(d.prompt))
    /\ d.requires_confirmation => (d.allowed /\ ~Falsy(d.prompt))

\* C38: every decision of check_step and of check_command is well formed;
\* for a plan none of whose steps is blocked, the decision of check_command
\* requires confirmation exactly when the decision of check_step for at
\* least one of its steps does; the empty plan is allowed without
\* confirmation.
C38_DecisionsWellFormed ==
    /\ (fn_call.op = "check_step" /\ fn_result.applied) => WellFormed(fn_result.value)
    /\ (fn_call.op = "check_command" /\ fn_result.applied)
         => /\ WellFormed(fn_result.value)
            /\ (\A i \in 1..Len(fn_call.steps) : check_step(fn_call.steps[i]).allowed)
                 => /\ fn_result.value.allowed
                    /\ fn_result.value.requires_confirmation
                         <=> \E i \in 1..Len(fn_call.steps) :
                                check_step(fn_call.steps[i]).requires_confirmation
            /\ fn_call.steps = <<>>
                 => fn_result.value.allowed /\ ~fn_result.value.requires_confirmation

\* a plan of three allowed steps, only the last of which asks confirmation
C38_Witness ==
    /\ fn_call.op = "check_command"
    /\ fn_result.applied
    /\ fn_call.steps = <<ActionStep("OPEN_APP", [app_name |-> "Notes"]),
                         ActionStep("OPEN_APP", [app_name |-> "Notes"]),
                         ActionStep("MAIL", [operation |-> "send"])>>
    /\ fn_result.value.allowed
    /\ fn_result.value.requires_confirmation
    /\ ~Falsy(fn_result.value.prompt)

(***************************************************************************)
(* skills/voice.py: speak_text, with the threads that call it              *)
(*                                                                         *)
(* Every call of speak_text in the repository leaves allow_interrupt True, *)
(* so each call monitors the microphone while the `say` process plays.     *)
(* The statements of speak_text run one at a time and the two threads      *)
(* interleave between them.                                                *)
(***************************************************************************)
MaxSpeaks == 3

VOLUME_THRESHOLD_INTERRUPT == 1500

\* CONFIDENCE_THRESHOLD of speak_text, 0.4, in hundredths
CONFIDENCE_THRESHOLD == 40

\* a chunk read from the stream: its RMS volume and what the voice model
\* answers for it, in hundredths
Chunks == [rms_vol : {1500, 2000}, speech_prob : {40, 90}]

\* what the turn state machine holds, the interrupt flag apart
TurnVars ==
    <<pc, turns, events, chat_history, speech_threads, raw, raw_actions,
      plan_actions, response_text, close_targets, actions, expanded, gated, safety,
      confirmation, listens, idx, executed, tool_actions, spoken, planner, fault>>

\* the calls of speak_text that have not reached Popen yet
Starting == {c \in Callers : speak[c].pc \in {"stop_speaking", "set_none", "clear_interrupt", "popen"}
                              /\ speak[c].ret = "clear_interrupt"}

\* speak_text(text) is called
SpeakCall(c) ==
    /\ speak[c].pc = "idle"
    /\ spawned + Cardinality(Starting) < MaxSpeaks
    /\ speak' = [speak EXCEPT ![c] = [pc |-> "stop_speaking", ret |-> "clear_interrupt",
                                      interrupted |-> FALSE, exit |-> "<none>",
                                      proc |-> 0, returned |-> NotApplied]]
    /\ UNCHANGED <<current_speech_process, say_running, spawned, open_streams,
                   interrupt_flag, TurnVars, FnVars, MemVars>>

\* stop_speaking(): terminate() and wait() of the current process, if there is one
StopSpeaking(c) ==
    /\ speak[c].pc = "stop_speaking"
    /\ IF current_speech_process # 0
       THEN /\ say_running' = say_running \ {current_speech_process}
            /\ speak' = [speak EXCEPT ![c].pc = "set_none"]
       ELSE /\ say_running' = say_running
            /\ speak' = [speak EXCEPT ![c].pc = speak[c].ret]
    /\ UNCHANGED <<current_speech_process, spawned, open_streams,
                   interrupt_flag, TurnVars, FnVars, MemVars>>

\* stop_speaking(): _current_speech_process = None
SetNone(c) ==
    /\ speak[c].pc = "set_none"
    /\ current_speech_process' = 0
    /\ speak' = [speak EXCEPT ![c].pc = speak[c].ret]
    /\ UNCHANGED <<say_running, spawned, open_streams,
                   interrupt_flag, TurnVars, FnVars, MemVars>>

\* clear_interrupt()
ClearInterrupt(c) ==
    /\ speak[c].pc = "clear_interrupt"
    /\ interrupt_flag' = FALSE
    /\ speak' = [speak EXCEPT ![c].pc = "popen"]
    /\ UNCHANGED <<current_speech_process, say_running, spawned, open_streams,
                   TurnVars, FnVars, MemVars>>

\* _current_speech_process = subprocess.Popen(["say", ...])
Popen(c) ==
    /\ speak[c].pc = "popen"
    /\ spawned' = spawned + 1
    /\ say_running' = say_running \cup {spawned + 1}
    /\ current_speech_process' = spawned + 1
    /\ speak' = [speak EXCEPT ![c].pc = "open", ![c].proc = spawned + 1]
    /\ UNCHANGED <<open_streams, interrupt_flag, TurnVars, FnVars, MemVars>>

\* stream = pa.open(...), before the try: it returns a stream, or it raises and
\* the exception leaves speak_text with no stream opened
OpenStream(c) ==
    /\ speak[c].pc = "open"
    /\ \/ /\ open_streams' = open_streams + 1
          /\ speak' = [speak EXCEPT ![c].pc = "loop"]
       \/ /\ open_streams' = open_streams
          /\ speak' = [speak EXCEPT ![c].pc = "idle", ![c].exit = "raised"]
    /\ UNCHANGED <<current_speech_process, say_running, spawned,
                   interrupt_flag, TurnVars, FnVars, MemVars>>

\* the head of the monitor loop ends it: the other thread has set
\* _current_speech_process to None and poll() raises AttributeError, which
\* `except Exception` catches; or poll() tells that the process has ended; or
\* is_interrupted() is true
MonitorEnds(c) ==
    /\ speak[c].pc = "loop"
    /\ \/ /\ current_speech_process = 0
          /\ speak' = [speak EXCEPT ![c].pc = "finally", ![c].exit = "error"]
       \/ /\ current_speech_process # 0
          /\ current_speech_process \notin say_running
          /\ speak' = [speak EXCEPT ![c].pc = "finally", ![c].exit = "completed"]
       \/ /\ current_speech_process \in say_running
          /\ interrupt_flag
          /\ speak' = [speak EXCEPT ![c].pc = "finally", ![c].exit = "flag",
                                    ![c].interrupted = TRUE]
    /\ UNCHANGED <<current_speech_process, say_running, spawned, open_streams,
                   interrupt_flag, TurnVars, FnVars, MemVars>>

\* speech detected in a chunk
VoiceDetected(chunk) ==
    /\ chunk.rms_vol > VOLUME_THRESHOLD_INTERRUPT
    /\ chunk.speech_prob > CONFIDENCE_THRESHOLD

\* the body of the monitor loop with a chunk from the microphone: on speech
\* it calls stop_speaking(), otherwise the loop goes round
MonitorReads(c, chunk) ==
    /\ speak[c].pc = "loop"
    /\ current_speech_process \in say_running
    /\ ~interrupt_flag
    /\ VoiceDetected(chunk)
    /\ speak' = [speak EXCEPT ![c].pc = "stop_speaking", ![c].ret = "break",
                              ![c].exit = "voice"]
    /\ UNCHANGED <<current_speech_process, say_running, spawned, open_streams,
                   interrupt_flag, TurnVars, FnVars, MemVars>>

\* stream.read or the voice model raises: `except Exception` catches it
MonitorRaises(c) ==
    /\ speak[c].pc = "loop"
    /\ current_speech_process \in say_running
    /\ ~interrupt_flag
    /\ speak' = [speak EXCEPT ![c].pc = "finally", ![c].exit = "error"]
    /\ UNCHANGED <<current_speech_process, say_running, spawned, open_streams,
                   interrupt_flag, TurnVars, FnVars, MemVars>>

\* stop_speaking() has returned in the loop: interrupted = True; break
Break(c) ==
    /\ speak[c].pc = "break"
    /\ speak' = [speak EXCEPT ![c].pc = "finally", ![c].interrupted = TRUE]
    /\ UNCHANGED <<current_speech_process, say_running, spawned, open_streams,
                   interrupt_flag, TurnVars, FnVars, MemVars>>

\* finally without stream.close()
Finally_noclose(c) ==
    /\ speak[c].pc = "finally"
    /\ open_streams' = open_streams
    /\ speak' = [speak EXCEPT ![c].pc = "idle",
                              ![c].returned = Returned(~speak[c].interrupted)]
    /\ UNCHANGED <<current_speech_process, say_running, spawned,
                   interrupt_flag, TurnVars, FnVars, MemVars>>

\* finally: stream.close(); return not interrupted
Finally(c) ==
    /\ speak[c].pc = "finally"
    /\ open_streams' = open_streams - 1
    /\ speak' = [speak EXCEPT ![c].pc = "idle",
                              ![c].returned = Returned(~speak[c].interrupted)]
    /\ UNCHANGED <<current_speech_process, say_running, spawned,
                   interrupt_flag, TurnVars, FnVars, MemVars>>

\* a `say` process comes to the end of its text
PlaybackEnds(p) ==
    /\ p \in say_running
    /\ say_running' = say_running \ {p}
    /\ UNCHANGED <<current_speech_process, spawned, open_streams, speak,
                   interrupt_flag, TurnVars, FnVars, MemVars>>

\* set_interrupt(), which listen_for_interrupt calls on an interrupt command
SetInterrupt ==
    /\ ~interrupt_flag
    /\ \E c \in Callers : speak[c].pc # "idle"
    /\ interrupt_flag' = TRUE
    /\ UNCHANGED <<VoiceVars, TurnVars, FnVars, MemVars>>

VoiceInit ==
    /\ InitOrchestrator
    /\ InitFn
    /\ InitMem
    /\ InitVoice

VoiceNext ==
    \/ \E c \in Callers : SpeakCall(c)
    \/ \E c \in Callers : StopSpeaking(c)
    \/ \E c \in Callers : SetNone(c)
    \/ \E c \in Callers : ClearInterrupt(c)
    \/ \E c \in Callers : Popen(c)
    \/ \E c \in Callers : OpenStream(c)
    \/ \E c \in Callers : MonitorEnds(c)
    \/ \E c \in Callers, chunk \in Chunks : MonitorReads(c, chunk)
    \/ \E c \in Callers : MonitorRaises(c)
    \/ \E c \in Callers : Break(c)
    \/ \E c \in Callers : Finally(c)
    \/ \E p \in 1..MaxSpeaks : PlaybackEnds(p)
    \/ SetInterrupt

VoiceSpec == VoiceInit /\ [][VoiceNext]_vars


(***************************************************************************)
(* Claims about speak_text                                                 *)
(***************************************************************************)
\* the call of thread c returns in this step, the monitor having detected speech
ReturnsAfterVoice(c) ==
    /\ speak[c].pc = "finally"
    /\ speak[c].exit = "voice"
    /\ speak'[c].pc = "idle"

\* C11: when the monitor of speak_text detects speech above the confidence
\* threshold, the playback it monitored has been stopped, speak_text returns
\* False, and the interrupt flag is set when it returns, so that the next
\* is_interrupted() answers True.
C11_VoiceInterruptSetsFlag ==
    [][\A c \in Callers :
          ReturnsAfterVoice(c)
            => /\ speak'[c].returned = Returned(FALSE)
               /\ interrupt_flag']_vars

\* the calls of speak_text that hold a stream: after pa.open, up to the finally
Monitoring ==
    {c \in Callers :
        \/ speak[c].pc \in {"loop", "break", "finally"}
        \/ speak[c].pc \in {"stop_speaking", "set_none"} /\ speak[c].ret = "break"}

\* C12: the open audio input streams are exactly those of the calls of
\* speak_text that are between pa.open and their finally; hence a call that
\* has returned, whichever way its monitor loop ended (playback completed,
\* speech detected, interrupt flag seen, exception), has closed its stream, and
\* when no call is running no stream is open.
C12_StreamsReleased ==
    /\ open_streams = Cardinality(Monitoring)
    /\ (\A c \in Callers : speak[c].pc = "idle") => open_streams = 0

\* both threads have returned from speak_text, one after an exception in its
\* monitor loop and the other after it saw the interrupt flag, every `say`
\* process of the model having been started
C12_Witness ==
    /\ speak["main"].pc = "idle"
    /\ speak["main"].exit = "error"
    /\ speak["main"].returned = Returned(TRUE)
    /\ speak["reply"].pc = "idle"
    /\ speak["reply"].exit = "flag"
    /\ speak["reply"].returned = Returned(FALSE)
    /\ spawned = MaxSpeaks
    /\ open_streams = 0

\* C35: at most one `say` process is alive at any time, and a process that is
\* alive is the one that _current_speech_process refers to, whichever way the
\* calls of speak_text of the orchestrator and of its speech threads interleave.
C35_OnePlayback ==
    /\ Cardinality(say_running) <= 1
    /\ \A p \in say_running : p = current_speech_process

\* the call of thread c has returned a value
HasReturned(c) == speak[c].pc = "idle" /\ speak[c].returned.applied

\* C36: speak_text returns True only when its playback ran to completion and
\* False only when its playback was cut short, and once it has returned the
\* `say` process that the call started is no longer running, whichever way
\* the monitor loop ended (playback over, speech detected, interrupt flag
\* seen, exception in the loop).
C36_ReturnTellsCompletion ==
    \A c \in Callers :
        HasReturned(c)
          => /\ speak[c].returned.value => speak[c].exit = "completed"
             /\ ~speak[c].returned.value => speak[c].exit \in {"voice", "flag"}
             /\ speak[c].proc \notin say_running


(***************************************************************************)
(* core/orchestrator.py: _handle_memory_ops                                *)
(*                                                                         *)
(* Confidences are in hundredths: 0.65 is 65.                              *)
(***************************************************************************)
WRITE_CONFIDENCE_AUTO == 65

WRITE_CONFIDENCE_ASK == 60

\* plan.memory_read as plan_turn builds it
MemoryReads == {Absent, [query |-> "tea", limit |-> 5]}

\* plan.memory_write as plan_turn builds it: the note is kept only with should_store
MemoryWrites ==
    {Absent}
      \cup {[should_store |-> TRUE, confidence |-> c, note |-> n] :
               c \in {0, 40, 59, 60, 62, 64, 65, 70},
               n \in {Absent, [title |-> "tea"], [content |-> "likes tea"]}}
      \cup {[should_store |-> FALSE, confidence |-> c, note |-> Absent] : c \in {0, 62, 70}}

\* the utterance of a turn with memory operations
MemoryUtterances == {"i like tea"}

\* listen_to_user() after "Should I save that to memory?"
MemoryReplies == Replies \cup {"sure", "Yes."}

\* what the note store answers to a call
McpResults == {[ok |-> TRUE], [ok |-> FALSE]}

MemoryPrompt == "Should I save that to memory?"

\* the turn state machine while _handle_memory_ops runs, its interrupt flag,
\* what it spoke and its fate apart
MemTurn ==
    <<turns, events, chat_history, speech_threads, raw_actions, plan_actions,
      response_text, close_targets, actions, expanded, gated, safety, confirmation,
      listens, idx, executed, tool_actions, planner>>

MemFrame == <<MemTurn, raw>>

\* _handle_turn has heard u, plan_turn has answered a plan with these memory
\* operations, and _handle_memory_ops is called
MemoryOps(u, mr, mw) ==
    /\ mem_pc = "idle"
    /\ raw' = u
    /\ memory_read' = mr
    /\ memory_write' = mw
    /\ mem_pc' = "memory_read"
    /\ UNCHANGED <<tool_memory, notes, conf_ans, mem_listens, spoken, interrupt_flag,
                   pc, fault, MemTurn, FnVars, VoiceVars>>

\* if plan.memory_read: self.mcp.call("ch_search_notes_text", ...)
MemoryRead ==
    /\ mem_pc = "memory_read"
    /\ \/ /\ memory_read = Absent
          /\ mem_pc' = "memory_write"
          /\ UNCHANGED <<tool_memory, pc, fault>>
       \/ /\ memory_read # Absent
          /\ \E res \in McpResults : tool_memory' = [k \in {"memory_read"} |-> res]
          /\ mem_pc' = "memory_write"
          /\ UNCHANGED <<pc, fault>>
       \/ /\ memory_read # Absent
          /\ mem_pc' = "raised"
          /\ pc' = "Crashed"
          /\ fault' = "ch_search_notes_text"
          /\ UNCHANGED tool_memory
    /\ UNCHANGED <<memory_read, memory_write, notes, conf_ans, mem_listens,
                   spoken, interrupt_flag, MemFrame, FnVars, VoiceVars>>

\* the gate with > in place of >= at the upper threshold
WriteBand_above(conf) ==
    IF conf > WRITE_CONFIDENCE_AUTO THEN "auto"
    ELSE IF conf >= WRITE_CONFIDENCE_ASK THEN "ask"
    ELSE "none"

\* which branch of the gate a confidence takes
WriteBand(conf) ==
    IF conf >= WRITE_CONFIDENCE_AUTO THEN "auto"
    ELSE IF conf >= WRITE_CONFIDENCE_ASK THEN "ask"
    ELSE "none"

\* if plan.memory_write and plan.memory_write.should_store: the gate, up to the
\* prompt of its middle band
MemoryWriteGate ==
    /\ mem_pc = "memory_write"
    /\ IF memory_write # Absent /\ memory_write.should_store
       THEN CASE WriteBand(memory_write.confidence) = "auto" ->
                   /\ mem_pc' = "insert"
                   /\ UNCHANGED <<spoken, interrupt_flag>>
              [] WriteBand(memory_write.confidence) = "ask" ->
                   /\ SpeakText(<<MemoryPrompt>>)
                   /\ mem_pc' = "listen"
              [] OTHER ->
                   /\ mem_pc' = "done"
                   /\ UNCHANGED <<spoken, interrupt_flag>>
       ELSE /\ mem_pc' = "done"
            /\ UNCHANGED <<spoken, interrupt_flag>>
    /\ UNCHANGED <<memory_read, memory_write, tool_memory, notes, conf_ans, mem_listens,
                   pc, fault, MemFrame, FnVars, VoiceVars>>

\* conf_ans = listen_to_user(); if conf_ans and "yes" in conf_ans.lower(): allowed = True
MemoryListen(reply) ==
    /\ mem_pc = "listen"
    /\ conf_ans' = reply
    /\ mem_listens' = mem_listens + 1
    /\ mem_pc' = IF ~Falsy(reply) /\ Contains(Lower(reply), "yes") THEN "insert" ELSE "done"
    /\ UNCHANGED <<memory_read, memory_write, tool_memory, notes,
                   spoken, interrupt_flag, pc, fault, MemFrame, FnVars, VoiceVars>>

\* if allowed: self.mcp.call("ch_insert_note", ...), then tool_bundle["memory_write"]
InsertNote ==
    /\ mem_pc = "insert"
    /\ \/ /\ \E res \in McpResults :
                tool_memory' =
                    [k \in DOMAIN tool_memory \cup {"memory_write"} |->
                        IF k = "memory_write" THEN [stored |-> TRUE, ok |-> res.ok]
                        ELSE tool_memory[k]]
          /\ notes' =
                Append(notes,
                       [content |-> redact(Or(Get(memory_write.note, "content", None), raw)),
                        confidence |-> memory_write.confidence])
          /\ mem_pc' = "done"
          /\ UNCHANGED <<pc, fault>>
       \/ /\ mem_pc' = "raised"
          /\ pc' = "Crashed"
          /\ fault' = "ch_insert_note"
          /\ UNCHANGED <<tool_memory, notes>>
    /\ UNCHANGED <<memory_read, memory_write, conf_ans, mem_listens,
                   spoken, interrupt_flag, MemFrame, FnVars, VoiceVars>>

MemInit ==
    /\ InitOrchestrator
    /\ InitFn
    /\ InitVoice
    /\ InitMem

MemNext ==
    \/ \E u \in MemoryUtterances, mr \in MemoryReads, mw \in MemoryWrites : MemoryOps(u, mr, mw)
    \/ MemoryRead
    \/ MemoryWriteGate
    \/ \E reply \in MemoryReplies : MemoryListen(reply)
    \/ InsertNote

MemSpec == MemInit /\ [][MemNext]_vars


(***************************************************************************)
(* Claims about the memory gate                                            *)
(***************************************************************************)
\* the plan proposes a write: memory_write with should_store
WriteProposed == memory_write # Absent /\ memory_write.should_store

\* the note of the plan is in the store and tool_bundle says so
Stored ==
    /\ notes # <<>>
    /\ notes[Len(notes)].confidence = memory_write.confidence
    /\ "memory_write" \in DOMAIN tool_memory
    /\ tool_memory["memory_write"].stored

C18_MiddleBand ==
    (/\ WriteProposed
     /\ memory_write.confidence >= WRITE_CONFIDENCE_ASK
     /\ memory_write.confidence < WRITE_CONFIDENCE_AUTO
     /\ mem_pc = "done")
      => /\ spoken = <<MemoryPrompt>>
         /\ mem_listens = 1
         /\ Stored <=> is_confirmation_positive(conf_ans)

(***************************************************************************)
(* core/orchestrator.py: _handle_turn with its memory operations.  One     *)
(* turn of the conversation, the plan of which carries a memory_read and a *)
(* memory_write; _handle_memory_ops runs between the overrides and         *)
(* expand_steps.                                                           *)
(***************************************************************************)
\* the "actions" of the planner in that turn
TurnPlans ==
    {<<>>,
     <<[intent |-> "OPEN_APP", args |-> [app_name |-> "Notes"]]>>,
     <<[intent |-> "contacts", args |-> [name |-> "Sam"]]>>,
     <<[intent |-> "CLOSE_APP", args |-> [app_name |-> "Finder", force |-> "yes"]]>>,
     <<[intent |-> "EXIT"]>>,
     <<[intent |-> "OPEN_APP", args |-> [app_name |-> "Notes"]], [intent |-> "EXIT"]>>,
     <<[intent |-> "OPEN_APP", args |-> [app_name |-> "Notes"]],
       [intent |-> "contacts", args |-> [name |-> "Sam"]]>>}

\* plan.memory_write in that turn
TurnMemoryWrites ==
    {Absent,
     [should_store |-> TRUE, confidence |-> 70, note |-> [content |-> "likes tea"]],
     [should_store |-> TRUE, confidence |-> 62, note |-> [content |-> "likes tea"]]}

\* expand_steps runs without the memory operations having returned
MemoryReturned_not_awaited == TRUE

\* await self._handle_memory_ops(...) has returned
MemoryReturned == mem_pc = "done"

HandleTurnNext ==
    \/ WakeWord
    \/ \E u \in Utterances : mem_pc = "idle" /\ Listen(u)
    \/ \E actions_raw \in TurnPlans, text \in ResponseTexts : PlanTurn(actions_raw, text)
    \/ \E failure \in PlannerFailures : PlanTurnFails(failure)
    \/ \E app_list \in AppLists, front \in FrontApps : ApplyOverrides(app_list, front)
    \/ \E mr \in MemoryReads, mw \in TurnMemoryWrites : pc = "Expand" /\ MemoryOps(raw, mr, mw)
    \/ MemoryRead
    \/ MemoryWriteGate
    \/ \E reply \in MemoryReplies : MemoryListen(reply)
    \/ InsertNote
    \/ \E apps \in AppLists : MemoryReturned /\ ExpandAndGate(apps)
    \/ \E reply \in Replies : Confirm(reply)
    \/ ExecStep
    \/ SpeechThread
    \/ ListenForInterrupt
    \/ Narrate

HandleTurnSpec == Init /\ [][HandleTurnNext]_vars


(***************************************************************************)
(* Claims about the order of the calls of a turn                           *)
(***************************************************************************)
\* the last row of the event store is of this kind
LastEventIs(rows, kind) == rows # <<>> /\ rows[Len(rows)].kind = kind

\* the steps in which each awaited call of the turn starts or returns
MemoryOpsStart == mem_pc = "idle" /\ mem_pc' # "idle"

MemoryReadReturns == "memory_read" \in DOMAIN tool_memory' /\ "memory_read" \notin DOMAIN tool_memory

MemoryWriteStarts ==
    \/ mem_pc # "insert" /\ mem_pc' = "insert"
    \/ notes' # notes
    \/ fault # "ch_insert_note" /\ fault' = "ch_insert_note"

ExecutionStep == expanded' # expanded \/ gated' # gated \/ executed' # executed

NarrationStep ==
    \/ spoken' = Append(spoken, Followup)
    \/ fault # "narrate_turn" /\ fault' = "narrate_turn"

ReplyLogStep == Len(events') > Len(events) /\ LastEventIs(events', "assistant_reply")

HistoryUpdateStep == pc # "Sleeping" /\ chat_history' # chat_history

\* C25: in a processed turn the awaited calls come in one order: the user
\* event is logged before the memory operations start; the memory read has
\* returned before the memory write starts; the memory operations have
\* returned before the actions are expanded, gated and executed; every step
\* is executed before the narration; the narration is spoken before the
\* assistant reply is logged; the reply is logged before the history is
\* updated; and nothing earlier in this order happens after something later.
C25_FixedOrder ==
    [][/\ MemoryOpsStart
            => /\ pc = "Expand"
               /\ LastEventIs(events, "user_msg")
               /\ events[Len(events)].text = Redacted[raw]
               /\ executed = <<>> /\ expanded = <<>>
       /\ MemoryReadReturns
            => /\ mem_pc = "memory_read"
               /\ notes = <<>>
               /\ "memory_write" \notin DOMAIN tool_memory
       /\ MemoryWriteStarts
            => /\ mem_pc \in {"memory_write", "listen", "insert"}
               /\ memory_read # Absent => "memory_read" \in DOMAIN tool_memory
               /\ executed = <<>> /\ expanded = <<>>
       /\ ExecutionStep
            => /\ mem_pc = "done" /\ mem_pc' = "done"
               /\ ~LastEventIs(events, "assistant_reply")
               /\ Followup \notin {spoken[i] : i \in 1..Len(spoken)}
       /\ NarrationStep
            => /\ pc = "Narrate"
               /\ mem_pc = "done"
               /\ executed' = executed
               /\ ~LastEventIs(events, "assistant_reply")
       /\ ReplyLogStep
            => /\ pc = "Narrate"
               /\ NeedsNarration => spoken' # <<>> /\ spoken'[Len(spoken')] = Followup
               /\ chat_history' = chat_history
                                    \o <<"User: " \o raw,
                                         "Nexus: " \o FinalReply(response_text, NeedsNarration)>>
       /\ HistoryUpdateStep
            => /\ ReplyLogStep
               /\ mem_pc = "done"
               /\ executed' = executed
       /\ (pc = "Conversing" /\ LastEventIs(events, "assistant_reply"))
            => UNCHANGED <<MemVars, executed, expanded, events, chat_history>>
      ]_vars

\* a turn in which every call of the order was made: a memory read, a stored
\* note, an executed step, a narration, the logged reply and the history
C25_Witness ==
    /\ pc = "Conversing"
    /\ "memory_read" \in DOMAIN tool_memory
    /\ "memory_write" \in DOMAIN tool_memory
    /\ notes # <<>>
    /\ executed # <<>>
    /\ spoken # <<>> /\ spoken[Len(spoken)] = Followup
    /\ LastEventIs(events, "assistant_reply")
    /\ Len(events) = 2
    /\ Len(chat_history) = 2


(***************************************************************************)
(* More properties of a turn, under Spec.                                  *)
(***************************************************************************)
\* the conversation session is active: _run_conversation is in its loop
SessionActive ==
    pc \in {"Conversing", "Planning", "Overrides", "Expand", "AwaitingConfirmation",
            "Executing", "Narrate"}

\* C31: while the session is active the history only grows, and a turn that
\* grows it appends the user's utterance and then the reply; when the session
\* goes to sleep the history is cleared, and the next wake starts from the
\* reset (empty) history.
C31_HistoryAppendOnlyResetOnSleep ==
    [][/\ (SessionActive /\ chat_history' # chat_history)
            => /\ Len(chat_history') = Len(chat_history) + 2
               /\ SubSeq(chat_history', 1, Len(chat_history)) = chat_history
               /\ chat_history'[Len(chat_history) + 1] = "User: " \o raw
               /\ StartsWith(chat_history'[Len(chat_history) + 2], "Nexus: ")
       /\ (SessionActive /\ pc' = "Sleeping") => chat_history' = <<>>
       /\ (pc = "Sleeping" /\ pc' = "Conversing" /\ turns > 0) => chat_history' = <<>>
      ]_vars

\* The part of C31 that the code has: while the session is active the history
\* only grows, by the user's utterance and then the reply of the turn.
C31_HistoryAppendOnly ==
    [][(SessionActive /\ chat_history' # chat_history)
          => /\ Len(chat_history') = Len(chat_history) + 2
             /\ SubSeq(chat_history', 1, Len(chat_history)) = chat_history
             /\ chat_history'[Len(chat_history) + 1] = "User: " \o raw
             /\ StartsWith(chat_history'[Len(chat_history) + 2], "Nexus: ")
      ]_vars

\* absent, blank, or shorter than 4 characters after trimming
TooShort(u) == u = None \/ u = "" \/ Strip(u) = "" \/ Len(Strip(u)) < 4

\* C32: when the orchestrator, in Conversing, hears an utterance that is
\* absent, blank or shorter than 4 characters after trimming, it stays in
\* Conversing: the planner is not called, no event is logged, no step is
\* executed, nothing is spoken and the history is unchanged.
C32_NoiseDiscarded ==
    [][(pc = "Conversing" /\ TooShort(raw'))
          => /\ pc' = "Conversing"
             /\ planner' = NotPlanned
             /\ events' = events
             /\ executed' = <<>>
             /\ tool_actions' = <<>>
             /\ spoken' = <<>>
             /\ chat_history' = chat_history
             /\ turns' = turns
             /\ fault' = fault
      ]_vars

\* after a completed turn, "hey" was heard and discarded
C32_Witness ==
    /\ pc = "Conversing"
    /\ raw = "hey"
    /\ turns = 1
    /\ Len(chat_history) = 2
    /\ LastEventIs(events, "assistant_reply")
    /\ planner = NotPlanned

\* the entries of tool_bundle["actions"] that steps left: all but the BLOCKED
\* and CANCELLED entries of _execute_actions
StepResults ==
    SelectSeq(tool_actions, LAMBDA res : res.intent \notin {"BLOCKED", "CANCELLED"})

\* the step that is being executed raised and left no entry
StepRaised == pc = "Crashed" /\ fault = "apple.call"

\* C33: the steps of a plan are executed one at a time in plan order: the
\* steps given to _execute_step so far are a prefix of the expanded plan, the
\* loop is at the step after them, and tool_bundle["actions"] holds exactly
\* one entry for each step that has returned, in the order of the steps,
\* under the intent of its step.
C33_StepsSequential ==
    /\ Len(executed) <= Len(expanded)
    /\ executed = SubSeq(expanded, 1, Len(executed))
    /\ pc = "Executing" => idx = Len(executed) + 1
    /\ Len(StepResults) = IF StepRaised THEN Len(executed) - 1 ELSE Len(executed)
    /\ \A i \in 1..Len(StepResults) : StepResults[i].intent = executed[i].intent

\* two steps of one plan were executed, each with its entry
C33_Witness ==
    /\ pc = "Narrate"
    /\ Len(executed) = 2
    /\ executed[1].intent # executed[2].intent
    /\ Len(tool_actions) = 2
    /\ tool_actions[1].intent = executed[1].intent
    /\ tool_actions[2].intent = executed[2].intent

(***************************************************************************)
(* Claims about a turn whose plan holds EXIT, under HandleTurnSpec         *)
(***************************************************************************)
\* the expanded plan of the turn holds an EXIT step
ExitExpanded(steps) == \E i \in 1..Len(steps) : steps[i].intent = "EXIT"

\* C37: when the plan of a turn holds an EXIT action, the turn ends at the
\* sleep check after the memory operations have returned: no step of the
\* plan is executed, the steps before EXIT included, the gate is not asked
\* and no confirmation is requested, no assistant reply is logged and the
\* history is not appended, in that step and for as long as the plan stands.
C37_ExitExecutesNothing ==
    [][/\ (pc = "Expand" /\ ExitExpanded(expanded'))
            => /\ mem_pc = "done"
               /\ pc' = "Sleeping"
               /\ events' = events
               /\ chat_history' = chat_history
               /\ UNCHANGED MemVars
       /\ ExitExpanded(expanded)
            => /\ executed' = <<>>
               /\ tool_actions' = <<>>
               /\ safety' = NoDecision
               /\ confirmation' = NotAsked
               /\ listens' = 0
               /\ ~LastEventIs(events', "assistant_reply")
               /\ pc' \in {"Sleeping", "Conversing", "Crashed"}
      ]_vars

\* the plan was OPEN_APP then EXIT, a note was stored by the memory
\* operations, and the orchestrator sleeps with nothing executed
C37_Witness ==
    /\ pc = "Sleeping"
    /\ Len(expanded) = 2
    /\ expanded[1].intent = "OPEN_APP"
    /\ expanded[2].intent = "EXIT"
    /\ mem_pc = "done"
    /\ notes # <<>>
    /\ executed = <<>>
    /\ LastEventIs(events, "user_msg")
    /\ chat_history = <<>>

=============================================================================
